---- MODULE Spec2Model ----
(***************************************************************************)
(* State-machine model of the concurrent core of gui/qt5/qt5_gui.py:       *)
(*   - Streams.get_temporary_stream_id  (lock-protected id counter)        *)
(*   - Streams temporary streams        (id -> stream map, refresh)        *)
(*   - Upload._handle_uploads           (single media upload worker)       *)
(*   - Search.search/_searchCB/cancelSearch (thread id -> search id map)   *)
(*   - Search._threadStatusCB           (thread status fan-out)            *)
(*   - Qt5GUI._shutdown                 (shutdown signal)                  *)
(* Python strings are modelled as sequences of one-character strings, so   *)
(* that str() is a real conversion; "" is the empty sequence.              *)
(***************************************************************************)
EXTENDS Integers, Sequences, FiniteSets, TLC

\* ------------------------------------------------------------------ bounds
\* number of threads that call get_temporary_stream_id concurrently
MaxIdCallers == 2
\* total number of get_temporary_stream_id calls (more than 10, so that
\* two-digit ids are issued)
MaxIdCalls == 12
\* number of media upload tasks handed to upload_media_async
MaxTasks == 2
\* number of progress callbacks one task.run() makes before finalizing
MaxProgress == 1
\* number of search threads started by Search.search
MaxThreads == 1
\* number of callbacks the search threads make together: invocations of the
\* result callback and status changes delivered to Search._threadStatusCB
MaxCallbacks == 2
\* number of temporary streams the constructors create
MaxStreams == 2
\* number of distinct messages the feeds of the sources can return
MaxMessages == 1
\* number of calls made to the temporary stream operations of Streams
MaxStreamOps == 3
\* number of lists one fetch of the lists owned by an account returns
MaxLists == 2
\* number of calls of create_new_list and destroy_list
MaxListOps == 2
\* number of calls made to the operations of Accounts
MaxAccountOps == 2

VARIABLES
    \* ---- Streams (temporary stream id counter)
    temporary_stream_id,   \* Streams._temporary_stream_id
    id_lock,               \* owner of Streams._temporary_stream_id_lock, or NoOwner
    id_pc,                 \* position of each caller inside get_temporary_stream_id
    id_tmp,                \* per caller: value loaded by "+= 1"
    id_ret,                \* per caller: the string computed by str(...)
    id_before,             \* per caller: number of calls that had returned when its call started
    id_calls,              \* number of calls started so far
    id_rets,               \* history: the ids returned so far, in return order
    \* ---- Qt5GUI / Streams shutdown
    gui_shutdown,          \* Qt5GUI._shutdown has run
    tempdir_exists,        \* Streams._tempdir still exists on disk
    \* ---- Upload
    task_queue,            \* Upload._task_queue (queue.Queue, FIFO)
    unfinished_tasks,      \* queue.Queue.unfinished_tasks (put: +1, task_done: -1)
    up_pc,                 \* position of the media upload worker thread
    up_cur,                \* (index, task) the worker dequeued last
    up_result,             \* what task.run() did: returned (success, message) or raised
    up_progress,           \* progress callbacks made by the running task.run()
    upload_events,         \* history: pyotherside.send("mediaUploadStatus", ...) payloads
    tasks_created,         \* number of MediaUpload objects created so far
    sentinel_put,          \* a (index, None) item has been put on the queue
    \* ---- Search
    online,                \* gui.m.get("onlineServices") is available
    globals_bound,         \* SEARCH_RESULT_PREFIX and point2dict are bound at run time
    threadsInProgress,     \* Search._threadsInProgress: thread id -> search id
    th_state,              \* per search thread: position
    th_sid,                \* per search thread: searchId captured by its callback lambda
    th_cbs,                \* per search thread: number of result callbacks invoked
    ui_pc,                 \* position of the caller of search / cancelSearch
    ui_thread,             \* thread id the caller's current operation is about
    search_sent,           \* history: pyotherside.send(resultId / statusId, ...) events
    recorded_ever,         \* history: handles whose mapping has been recorded
    late_recorded,         \* history: handles recorded after their result was handled
    cancelled,             \* history: handles for which cancelSearch has returned
    cb_errors,             \* history: result callbacks that ended with an exception
    key_error,             \* history: a "del" hit a key that was already removed
    \* ---- Search._threadStatusCB
    st_pc,                 \* position of the thread that delivers a status change
    st_thread,             \* threadName of the status change being delivered
    st_status,             \* threadStatus of the status change being delivered
    st_recipient,          \* local "recipient": what _threadsInProgress.get returned
    st_calls,              \* number of status changes delivered so far
    status_sent,           \* history: pyotherside.send(statusId, threadStatus) events, numbered by delivery
    status_errors,         \* history: thread names whose status callback raised
    \* ---- Streams (temporary streams)
    temporary_streams,     \* Streams._temporary_streams: id string -> stream object
    temp_db,               \* stream objects with stream and source records in Streams._temp_db
    stream_messages,       \* per stream object: stream.messages, newest first
    streams_created,       \* number of stream objects created so far
    ts_pc,                 \* per calling thread: position inside its Streams call
    ts_stream,             \* per calling thread: local "stream"
    ts_id,                 \* per calling thread: local id (temporary_stream_id / stream_name)
    ts_new,                \* per calling thread: messages its running stream.refresh() fetched as new
    ts_ops,                \* number of Streams calls started so far
    ts_removed,            \* history: <<id, stream object>> of the map entries deleted
    ts_absent,             \* history: remove calls that found no entry: id, and whether
                           \*   an entry of that id had been deleted before
    ts_key_error,          \* history: a "del" hit an id that was already removed
    \* ---- Streams (messages and the active message)
    active_message_id,     \* per stream object: stream.active_message_id ("" for none)
    refresh_returns,       \* history, per stream object: supported messages its refreshes returned
    returned_twice,        \* history: a refresh returned a message an earlier one had returned
    sam_last,              \* history: the last set_stream_active_message call and how it ended
    gsm_last,              \* history: the last get_stream_messages call and what it returned
    \* ---- Accounts
    account_caches,        \* Accounts._account_caches: username -> cache object
    caches,                \* the AccountInfoCache objects constructed so far
    cache_db,              \* the cache records of db_manager.tweet_cache: username -> record
    ac_pc,                 \* per thread: position in the Accounts call it runs
    ac_op,                 \* per thread: the call it runs
    ac_user,               \* per thread: account_username of the call
    ac_cache,              \* per thread: local variable cache
    ac_info,               \* per thread: local variable user_info
    ac_before,             \* history, per thread: the cache as the refresh found it
    ac_ops,                \* number of Accounts calls started
    ac_last,               \* history: the last Accounts call that returned or raised
    \* ---- Lists
    remote_lists,          \* the created lists the remote service holds: private or not
    lm_private,            \* per thread: argument private of create_new_list
    lm_ops,                \* number of Lists calls started
    ui_events              \* history: the list events sent to the QML side

idVars == <<temporary_stream_id, id_lock, id_pc, id_tmp, id_ret, id_before,
            id_calls, id_rets>>
guiVars == <<gui_shutdown, tempdir_exists>>
uploadVars == <<task_queue, unfinished_tasks, up_pc, up_cur, up_result,
                up_progress, upload_events, tasks_created, sentinel_put>>
searchVars == <<online, globals_bound, cb_errors, threadsInProgress, th_state, th_sid, th_cbs, ui_pc, ui_thread, search_sent, recorded_ever,
                late_recorded, cancelled, key_error>>
statusVars == <<st_pc, st_thread, st_status, st_recipient, st_calls,
                status_sent, status_errors>>
streamVars == <<temporary_streams, temp_db, stream_messages, streams_created,
                ts_pc, ts_stream, ts_id, ts_new, ts_ops, ts_removed, ts_absent,
                ts_key_error>>
messageVars == <<active_message_id, refresh_returns, returned_twice, sam_last,
                 gsm_last>>
streamVarsButOps == <<temporary_streams, temp_db, stream_messages, streams_created,
                      ts_pc, ts_stream, ts_id, ts_new, ts_removed, ts_absent,
                      ts_key_error>>
accountVars == <<account_caches, caches, cache_db, ac_pc, ac_op, ac_user, ac_cache,
                 ac_info, ac_before, ac_ops, ac_last>>
listVars == <<remote_lists, lm_private, lm_ops, ui_events>>
vars == <<idVars, guiVars, uploadVars, searchVars, statusVars, streamVars,
          messageVars, accountVars, listVars>>

\* what the steps of one part leave alone
IdFrame == UNCHANGED <<guiVars, uploadVars, searchVars, statusVars, streamVars,
                       messageVars, accountVars, listVars>>
UploadFrame == UNCHANGED <<idVars, guiVars, searchVars, statusVars, streamVars,
                           messageVars, accountVars, listVars>>
SearchFrame == UNCHANGED <<idVars, guiVars, uploadVars, statusVars, streamVars,
                           messageVars, accountVars, listVars>>
StatusFrame == UNCHANGED <<idVars, guiVars, uploadVars, searchVars, streamVars,
                           messageVars, accountVars, listVars>>
StreamFrame == UNCHANGED <<guiVars, uploadVars, searchVars, statusVars, messageVars,
                           accountVars, listVars>>
MessageFrame == UNCHANGED <<guiVars, uploadVars, searchVars, statusVars, accountVars, listVars>>
AccountFrame == UNCHANGED <<idVars, guiVars, uploadVars, searchVars, statusVars,
                            streamVars, messageVars, listVars>>
ListFrame == UNCHANGED <<idVars, guiVars, uploadVars, searchVars, statusVars,
                         streamVars, messageVars>>

\* ------------------------------------------------------------ str(int)
Digit(d) == CASE d = 0 -> "0" [] d = 1 -> "1" [] d = 2 -> "2" [] d = 3 -> "3"
              [] d = 4 -> "4" [] d = 5 -> "5" [] d = 6 -> "6" [] d = 7 -> "7"
              [] d = 8 -> "8" [] d = 9 -> "9"

RECURSIVE StrNat(_)
StrNat(n) == IF n < 10 THEN <<Digit(n)>>
             ELSE StrNat(n \div 10) \o <<Digit(n % 10)>>

\* Python's str() of an int: decimal digits, "-" in front of a negative one
Str(n) == IF n < 0 THEN <<"-">> \o StrNat(0 - n) ELSE StrNat(n)

\* ===================================================== temporary stream ids
IdCallers == 1..MaxIdCallers
NoOwner == 0

IdInit ==
    /\ temporary_stream_id = -1
    /\ id_lock = NoOwner
    /\ id_pc = [c \in IdCallers |-> "idle"]
    /\ id_tmp = [c \in IdCallers |-> 0]
    /\ id_ret = [c \in IdCallers |-> <<>>]
    /\ id_before = [c \in IdCallers |-> 0]
    /\ id_calls = 0
    /\ id_rets = <<>>

\* a mutated lock that lets every caller in
IdLockBroken(c) == TRUE

\* threading.RLock: free, or already held by the calling thread
IdLockAvailable(c) == id_lock \in {NoOwner, c}

\* a thread calls get_temporary_stream_id
IdCall(c) ==
    /\ id_pc[c] = "idle"
    /\ id_calls < MaxIdCalls
    /\ id_calls' = id_calls + 1
    /\ id_before' = [id_before EXCEPT ![c] = Len(id_rets)]
    /\ id_pc' = [id_pc EXCEPT ![c] = "acquire"]
    /\ UNCHANGED <<temporary_stream_id, id_lock, id_tmp, id_ret, id_rets>>
    /\ IdFrame

\* with self._temporary_stream_id_lock:
IdAcquire(c) ==
    /\ id_pc[c] = "acquire"
    /\ IdLockAvailable(c)
    /\ id_lock' = c
    /\ id_pc' = [id_pc EXCEPT ![c] = "load"]
    /\ UNCHANGED <<temporary_stream_id, id_tmp, id_ret, id_before, id_calls, id_rets>>
    /\ IdFrame

\* self._temporary_stream_id += 1  (the read)
IdLoad(c) ==
    /\ id_pc[c] = "load"
    /\ id_tmp' = [id_tmp EXCEPT ![c] = temporary_stream_id]
    /\ id_pc' = [id_pc EXCEPT ![c] = "store"]
    /\ UNCHANGED <<temporary_stream_id, id_lock, id_ret, id_before, id_calls, id_rets>>
    /\ IdFrame

\* self._temporary_stream_id += 1  (the write)
IdStore(c) ==
    /\ id_pc[c] = "store"
    /\ temporary_stream_id' = id_tmp[c] + 1
    /\ id_pc' = [id_pc EXCEPT ![c] = "str"]
    /\ UNCHANGED <<id_lock, id_tmp, id_ret, id_before, id_calls, id_rets>>
    /\ IdFrame

\* str(self._temporary_stream_id), evaluated inside the with block
IdStr(c) ==
    /\ id_pc[c] = "str"
    /\ id_ret' = [id_ret EXCEPT ![c] = Str(temporary_stream_id)]
    /\ id_pc' = [id_pc EXCEPT ![c] = "release"]
    /\ UNCHANGED <<temporary_stream_id, id_lock, id_tmp, id_before, id_calls, id_rets>>
    /\ IdFrame

\* leaving the with block releases the lock; the call returns the string
IdReturn(c) ==
    /\ id_pc[c] = "release"
    /\ id_lock' = IF id_lock = c THEN NoOwner ELSE id_lock
    /\ id_rets' = Append(id_rets, id_ret[c])
    /\ id_pc' = [id_pc EXCEPT ![c] = "idle"]
    /\ id_tmp' = [id_tmp EXCEPT ![c] = 0]
    /\ id_ret' = [id_ret EXCEPT ![c] = <<>>]
    /\ id_before' = [id_before EXCEPT ![c] = 0]
    /\ UNCHANGED <<temporary_stream_id, id_calls>>
    /\ IdFrame

get_temporary_stream_id(c) ==
    \/ IdCall(c)
    \/ IdAcquire(c)
    \/ IdLoad(c)
    \/ IdStore(c)
    \/ IdStr(c)
    \/ IdReturn(c)

IdNext == \E c \in IdCallers : get_temporary_stream_id(c)

\* ============================================================ GUI shutdown
GuiInit ==
    /\ gui_shutdown = FALSE
    /\ tempdir_exists = TRUE

\* Streams._shutdown, connected to the gui.shutdown signal in Streams.__init__:
\* self._tempdir.cleanup() deletes the directory and with it the file of
\* _temp_db; nothing else of Streams is touched
StreamsShutdown ==
    /\ tempdir_exists' = FALSE
    /\ temp_db' = {}
    /\ UNCHANGED <<temporary_streams, stream_messages, streams_created, ts_pc,
                   ts_stream, ts_id, ts_new, ts_ops, ts_removed, ts_absent,
                   ts_key_error>>
    /\ UNCHANGED messageVars

\* Qt5GUI._shutdown: triggers the shutdown signal, whose only handler connected
\* in this file is Streams._shutdown; nothing here touches Upload._task_queue
GuiShutdown ==
    /\ ~gui_shutdown
    /\ gui_shutdown' = TRUE
    /\ StreamsShutdown
    /\ UNCHANGED <<idVars, uploadVars, searchVars, statusVars, accountVars, listVars>>

\* ============================================================ media upload
Indexes == {0, 1}
None == 0
Tasks == 1..MaxTasks
\* the message of a failure that task.run() reports as (False, message)
FailMessage == <<"f", "a", "i", "l">>
\* media id the remote service assigned to an uploaded task
MediaIdOf(task) == 9 + task

\* what task.run() can do in the end: return (success, message), or raise
RunOutcomes ==
    { [kind |-> "return", success |-> TRUE, message |-> <<>>],
      [kind |-> "return", success |-> FALSE, message |-> FailMessage],
      [kind |-> "raise", success |-> FALSE, message |-> <<>>] }

NoResult == [kind |-> "none", success |-> FALSE, message |-> <<>>]
NoItem == [index |-> 0, task |-> None]

\* one pyotherside.send("mediaUploadStatus", (index, status[, text | progress]))
Status(item, status, progress, text) ==
    [task |-> item.task, index |-> item.index, status |-> status,
     progress |-> progress, text |-> text]

UploadInit ==
    /\ task_queue = <<>>
    /\ unfinished_tasks = 0
    /\ up_pc = "get"
    /\ up_cur = NoItem
    /\ up_result = NoResult
    /\ up_progress = 0
    /\ upload_events = <<>>
    /\ tasks_created = 0
    /\ sentinel_put = FALSE

\* Upload.upload_media_async: builds the MediaUpload and puts (index, upload);
\* when the tokens of the account are not known the unpacking raises before
\* the put, so only calls with known tokens are steps of the model
upload_media_async(index) ==
    /\ tasks_created < MaxTasks
    /\ tasks_created' = tasks_created + 1
    /\ task_queue' = Append(task_queue, [index |-> index, task |-> tasks_created + 1])
    /\ unfinished_tasks' = unfinished_tasks + 1
    /\ UNCHANGED <<up_pc, up_cur, up_result, up_progress, upload_events, sentinel_put>>
    /\ UploadFrame

\* the shutdown sentinel: an (index, None) item put on the queue
PutSentinel(index) ==
    /\ ~sentinel_put
    /\ sentinel_put' = TRUE
    /\ task_queue' = Append(task_queue, [index |-> index, task |-> None])
    /\ unfinished_tasks' = unfinished_tasks + 1
    /\ UNCHANGED <<up_pc, up_cur, up_result, up_progress, upload_events, tasks_created>>
    /\ UploadFrame

\* a mutated queue that hands out the newest item first
UpGetLifo ==
    /\ up_pc = "get"
    /\ task_queue # <<>>
    /\ up_cur' = task_queue[Len(task_queue)]
    /\ task_queue' = SubSeq(task_queue, 1, Len(task_queue) - 1)
    /\ up_pc' = IF task_queue[Len(task_queue)].task = None THEN "exited" ELSE "uploading"
    /\ UNCHANGED <<unfinished_tasks, up_result, up_progress, upload_events,
                   tasks_created, sentinel_put>>
    /\ UploadFrame

\* a mutated loop head without the "task is None" test
UpGetNoSentinelTest ==
    /\ up_pc = "get"
    /\ task_queue # <<>>
    /\ up_cur' = Head(task_queue)
    /\ task_queue' = Tail(task_queue)
    /\ up_pc' = "uploading"
    /\ UNCHANGED <<unfinished_tasks, up_result, up_progress, upload_events,
                   tasks_created, sentinel_put>>
    /\ UploadFrame

\* index, task = self._task_queue.get(); if task is None: break
UpGet ==
    /\ up_pc = "get"
    /\ task_queue # <<>>
    /\ up_cur' = Head(task_queue)
    /\ task_queue' = Tail(task_queue)
    /\ up_pc' = IF Head(task_queue).task = None THEN "exited" ELSE "uploading"
    /\ UNCHANGED <<unfinished_tasks, up_result, up_progress, upload_events,
                   tasks_created, sentinel_put>>
    /\ UploadFrame

\* a mutated worker that forgets the UPLOADING status
UpSendUploadingSilent ==
    /\ up_pc = "uploading"
    /\ up_progress' = 0
    /\ up_result' = NoResult
    /\ up_pc' = "run"
    /\ UNCHANGED <<task_queue, unfinished_tasks, up_cur, upload_events,
                   tasks_created, sentinel_put>>
    /\ UploadFrame

\* pyotherside.send("mediaUploadStatus", (index, "UPLOADING"))
UpSendUploading ==
    /\ up_pc = "uploading"
    /\ upload_events' = Append(upload_events, Status(up_cur, "UPLOADING", 0, <<>>))
    /\ up_progress' = 0
    /\ up_result' = NoResult
    /\ up_pc' = "run"
    /\ UNCHANGED <<task_queue, unfinished_tasks, up_cur, tasks_created, sentinel_put>>
    /\ UploadFrame

\* UploadProgress.__call__(progress, finalizing)
UploadProgress(progress, finalizing) ==
    IF finalizing
    THEN upload_events' = Append(upload_events, Status(up_cur, "FINALIZING", 0, <<>>))
    ELSE upload_events' = Append(upload_events, Status(up_cur, "PROGRESS", progress, <<>>))

\* task.run() reports progress through its progress_callback while it uploads
UpRunProgress ==
    /\ up_pc = "run"
    /\ up_progress < MaxProgress
    /\ UploadProgress(up_progress + 1, FALSE)
    /\ up_progress' = up_progress + 1
    /\ UNCHANGED <<task_queue, unfinished_tasks, up_pc, up_cur, up_result,
                   tasks_created, sentinel_put>>
    /\ UploadFrame

\* task.run() reports that the upload is being finalized (once, after the chunks)
UpRunFinalizing ==
    /\ up_pc = "run"
    /\ up_progress <= MaxProgress
    /\ UploadProgress(up_progress, TRUE)
    /\ up_progress' = MaxProgress + 1
    /\ UNCHANGED <<task_queue, unfinished_tasks, up_pc, up_cur, up_result,
                   tasks_created, sentinel_put>>
    /\ UploadFrame

\* success, message = task.run(): it returns, or raises at any point
UpRunEnd ==
    /\ up_pc = "run"
    /\ \E outcome \in RunOutcomes : up_result' = outcome
    /\ up_pc' = "report"
    /\ UNCHANGED <<task_queue, unfinished_tasks, up_cur, up_progress, upload_events,
                   tasks_created, sentinel_put>>
    /\ UploadFrame

\* a mutated worker without the ERROR status in the else branch
UpReportNoError ==
    /\ up_pc = "report"
    /\ upload_events' =
         IF up_result.kind = "raise"
         THEN Append(upload_events, Status(up_cur, "ERROR", 0, <<>>))
         ELSE IF up_result.success
         THEN Append(upload_events,
                     Status(up_cur, "SUCCESS", 0, Str(MediaIdOf(up_cur.task))))
         ELSE upload_events
    /\ up_pc' = "task_done"
    /\ UNCHANGED <<task_queue, unfinished_tasks, up_cur, up_result, up_progress,
                   tasks_created, sentinel_put>>
    /\ UploadFrame

\* a mutated worker without the except clause: an exception ends the thread
UpReportNoExcept ==
    /\ up_pc = "report"
    /\ upload_events' =
         IF up_result.kind = "raise"
         THEN upload_events
         ELSE IF up_result.success
         THEN Append(upload_events,
                     Status(up_cur, "SUCCESS", 0, Str(MediaIdOf(up_cur.task))))
         ELSE Append(upload_events, Status(up_cur, "ERROR", 0, up_result.message))
    /\ up_pc' = IF up_result.kind = "raise" THEN "exited" ELSE "task_done"
    /\ UNCHANGED <<task_queue, unfinished_tasks, up_cur, up_result, up_progress,
                   tasks_created, sentinel_put>>
    /\ UploadFrame

\* if success: send SUCCESS str(media_id); else: send ERROR message;
\* except: send ERROR ""
UpReport ==
    /\ up_pc = "report"
    /\ upload_events' =
         IF up_result.kind = "raise"
         THEN Append(upload_events, Status(up_cur, "ERROR", 0, <<>>))
         ELSE IF up_result.success
         THEN Append(upload_events,
                     Status(up_cur, "SUCCESS", 0, Str(MediaIdOf(up_cur.task))))
         ELSE Append(upload_events, Status(up_cur, "ERROR", 0, up_result.message))
    /\ up_pc' = "task_done"
    /\ UNCHANGED <<task_queue, unfinished_tasks, up_cur, up_result, up_progress,
                   tasks_created, sentinel_put>>
    /\ UploadFrame

\* a mutated worker that goes back to the queue without task_done()
UpTaskDoneSkipped ==
    /\ up_pc = "task_done"
    /\ up_pc' = "get"
    /\ UNCHANGED <<task_queue, unfinished_tasks, up_cur, up_result, up_progress,
                   upload_events, tasks_created, sentinel_put>>
    /\ UploadFrame

\* self._task_queue.task_done(), then back to the head of the loop
UpTaskDone ==
    /\ up_pc = "task_done"
    /\ unfinished_tasks' = unfinished_tasks - 1
    /\ up_pc' = "get"
    /\ UNCHANGED <<task_queue, up_cur, up_result, up_progress, upload_events,
                   tasks_created, sentinel_put>>
    /\ UploadFrame

\* Upload._handle_uploads, the body of the one media upload thread
handle_uploads ==
    \/ UpGet
    \/ UpSendUploading
    \/ UpRunProgress
    \/ UpRunFinalizing
    \/ UpRunEnd
    \/ UpReport
    \/ UpTaskDone

UploadNext ==
    \/ \E index \in Indexes : upload_media_async(index)
    \/ \E index \in Indexes : PutSentinel(index)
    \/ handle_uploads
    \/ GuiShutdown

\* ================================================================== search
Threads == 1..MaxThreads
NoThread == 0
SearchIds == {"address", "local", "unknown"}
SEARCH_RESULT_PREFIX == "search:result:"
SEARCH_STATUS_PREFIX == "search:status:"
\* the status texts a search thread reports while it works
ThreadStatuses == {"searching", "done"}

\* _getSearchFunction: the asynchronous search function of the search id, or
\* None for an id that has none
getSearchFunction(searchId) ==
    CASE searchId = "address" -> "geocodeAsync"
      [] searchId = "wikipedia" -> "wikipediaSearchAsync"
      [] searchId = "local" -> "localSearchAsync"
      [] OTHER -> "None"

Tracked(t) == t \in DOMAIN threadsInProgress
\* a mutated del that removes nothing
RemoveNothing(t) == threadsInProgress

\* del self._threadsInProgress[t]
Remove(t) == [x \in DOMAIN threadsInProgress \ {t} |-> threadsInProgress[x]]
Unstarted == {t \in Threads : th_state[t] = "unstarted"}
RECURSIVE Sum(_, _)
Sum(f, S) == IF S = {} THEN 0
             ELSE LET x == CHOOSE y \in S : TRUE IN f[x] + Sum(f, S \ {x})
CallbacksMade == Sum(th_cbs, Threads)
\* result callbacks and status callbacks made so far
DeliveriesMade == CallbacksMade + st_calls
\* the name the thread manager gives to the next thread
NextThread == CHOOSE t \in Unstarted : \A u \in Unstarted : t <= u

SearchInit ==
    /\ online \in BOOLEAN
    /\ globals_bound \in BOOLEAN
    /\ threadsInProgress = <<>>
    /\ th_state = [t \in Threads |-> "unstarted"]
    /\ th_sid = [t \in Threads |-> "None"]
    /\ th_cbs = [t \in Threads |-> 0]
    /\ ui_pc = "idle"
    /\ ui_thread = NoThread
    /\ search_sent = <<>>
    /\ recorded_ever = {}
    /\ late_recorded = {}
    /\ cancelled = {}
    /\ cb_errors = {}
    /\ key_error = FALSE
    /\ st_pc = "idle"
    /\ st_thread = NoThread
    /\ st_status = "None"
    /\ st_recipient = "None"
    /\ st_calls = 0
    /\ status_sent = {}
    /\ status_errors = {}

\* a mutated lookup that finds a search function for every search id
AnySearchFunction(searchId) == "geocodeAsync"

\* searchFunction = self._getSearchFunction(searchId)
SearchFunctionOf(searchId) == getSearchFunction(searchId)

\* Search.search up to "threadId = searchFunction(query, callback)": without
\* online services the "if" is skipped; calling the None search function
\* raises TypeError; otherwise the search thread is started and runs from
\* here on
SearchStart(searchId) ==
    /\ ui_pc = "idle"
    /\ IF ~online
       THEN /\ ui_pc' = "offline"
            /\ UNCHANGED <<th_state, th_sid, ui_thread>>
       ELSE IF SearchFunctionOf(searchId) = "None"
       THEN /\ ui_pc' = "no_function"
            /\ UNCHANGED <<th_state, th_sid, ui_thread>>
       ELSE /\ Unstarted # {}
            /\ th_state' = [th_state EXCEPT ![NextThread] = "running"]
            /\ th_sid' = [th_sid EXCEPT ![NextThread] = searchId]
            /\ ui_thread' = NextThread
            /\ ui_pc' = "record"
    /\ UNCHANGED <<online, globals_bound, threadsInProgress, th_cbs, search_sent,
                   recorded_ever, late_recorded, cancelled, cb_errors, key_error>>
    /\ SearchFrame

\* Search.search ends without a job: offline it falls off the end and
\* returns None, without a search function the TypeError leaves it; the
\* assignment to _threadsInProgress is not reached
SearchNoJob ==
    /\ ui_pc \in {"offline", "no_function"}
    /\ ui_pc' = "idle"
    /\ UNCHANGED <<online, globals_bound, threadsInProgress, th_state, th_sid,
                   th_cbs, ui_thread, search_sent, recorded_ever, late_recorded,
                   cancelled, cb_errors, key_error>>
    /\ SearchFrame

\* self._threadsInProgress[threadId] = searchId; return threadId
SearchRecord ==
    /\ ui_pc = "record"
    /\ threadsInProgress' = (ui_thread :> th_sid[ui_thread]) @@ threadsInProgress
    /\ recorded_ever' = recorded_ever \cup {ui_thread}
    /\ late_recorded' =
         IF th_cbs[ui_thread] > 0 /\ th_state[ui_thread] \in {"running", "finished"}
         THEN late_recorded \cup {ui_thread}
         ELSE late_recorded
    /\ ui_pc' = "idle"
    /\ ui_thread' = NoThread
    /\ UNCHANGED <<online, globals_bound, th_state, th_sid, th_cbs, search_sent,
                   cancelled, cb_errors, key_error>>
    /\ SearchFrame

\* Search._searchCB up to pyotherside.send(resultId, resultList), run by the
\* search thread t: building resultId needs SEARCH_RESULT_PREFIX (and
\* point2dict for a non-empty result), names this file never binds; unbound,
\* the callback ends there with NameError
SearchCBSend(t) ==
    /\ th_state[t] = "running"
    /\ DeliveriesMade < MaxCallbacks
    /\ th_cbs' = [th_cbs EXCEPT ![t] = @ + 1]
    /\ IF globals_bound
       THEN /\ search_sent' = Append(search_sent,
                 [kind |-> "result", id |-> <<SEARCH_RESULT_PREFIX, th_sid[t]>>,
                  thread |-> t,
                  gone |-> (t \in recorded_ever /\ ~Tracked(t)),
                  after_cancel |-> (t \in cancelled)])
            /\ th_state' = [th_state EXCEPT ![t] = "cb_check"]
            /\ UNCHANGED cb_errors
       ELSE /\ cb_errors' = cb_errors \cup
                 {[thread |-> t, error |-> "NameError",
                   gone |-> (t \in recorded_ever /\ ~Tracked(t))]}
            /\ UNCHANGED <<search_sent, th_state>>
    /\ UNCHANGED <<online, globals_bound, threadsInProgress, th_sid, ui_pc,
                   ui_thread, recorded_ever, late_recorded, cancelled,
                   key_error>>
    /\ SearchFrame

\* if thisThread.name in self._threadsInProgress:
SearchCBCheck(t) ==
    /\ th_state[t] = "cb_check"
    /\ th_state' = [th_state EXCEPT ![t] = IF Tracked(t) THEN "cb_del" ELSE "running"]
    /\ UNCHANGED <<online, globals_bound, threadsInProgress, th_sid, th_cbs,
                   ui_pc, ui_thread, search_sent, recorded_ever,
                   late_recorded, cancelled, cb_errors, key_error>>
    /\ SearchFrame

\* del self._threadsInProgress[thisThread.name]  (KeyError when already gone)
SearchCBDel(t) ==
    /\ th_state[t] = "cb_del"
    /\ threadsInProgress' = Remove(t)
    /\ key_error' = (key_error \/ ~Tracked(t))
    /\ th_state' = [th_state EXCEPT ![t] = "running"]
    /\ UNCHANGED <<online, globals_bound, th_sid, th_cbs, ui_pc,
                   ui_thread, search_sent, recorded_ever, late_recorded,
                   cancelled, cb_errors>>
    /\ SearchFrame

\* the search thread ends (by itself, or because its cancellation took effect)
ThreadEnd(t) ==
    /\ th_state[t] = "running"
    /\ th_state' = [th_state EXCEPT ![t] = "finished"]
    /\ UNCHANGED <<online, globals_bound, threadsInProgress, th_sid, th_cbs,
                   ui_pc, ui_thread, search_sent, recorded_ever,
                   late_recorded, cancelled, cb_errors, key_error>>
    /\ SearchFrame

\* Search.cancelSearch: threadMgr.cancel_thread(threadId) is a best-effort
\* request; the thread may end at any time (ThreadEnd) or go on and deliver
CancelStart(t) ==
    /\ ui_pc = "idle"
    /\ ui_thread' = t
    /\ ui_pc' = "cancel_check"
    /\ UNCHANGED <<online, globals_bound, threadsInProgress, th_state, th_sid,
                   th_cbs, search_sent, recorded_ever, late_recorded,
                   cancelled, cb_errors, key_error>>
    /\ SearchFrame

\* if threadId in self._threadsInProgress:
CancelCheck ==
    /\ ui_pc = "cancel_check"
    /\ IF Tracked(ui_thread)
       THEN /\ ui_pc' = "cancel_del"
            /\ UNCHANGED <<ui_thread, cancelled>>
       ELSE /\ ui_pc' = "idle"
            /\ ui_thread' = NoThread
            /\ cancelled' = cancelled \cup {ui_thread}
    /\ UNCHANGED <<online, globals_bound, threadsInProgress, th_state, th_sid,
                   th_cbs, search_sent, recorded_ever,
                   late_recorded, cb_errors, key_error>>
    /\ SearchFrame

\* del self._threadsInProgress[threadId]  (KeyError when already gone)
CancelDel ==
    /\ ui_pc = "cancel_del"
    /\ threadsInProgress' = Remove(ui_thread)
    /\ key_error' = (key_error \/ ~Tracked(ui_thread))
    /\ cancelled' = cancelled \cup {ui_thread}
    /\ ui_pc' = "idle"
    /\ ui_thread' = NoThread
    /\ UNCHANGED <<online, globals_bound, th_state, th_sid, th_cbs, search_sent,
                   recorded_ever, late_recorded, cb_errors>>
    /\ SearchFrame

\* a mutated lookup that takes the search id the thread was started with
StatusLookupUntracked(t) == th_sid[t]

\* self._threadsInProgress.get(threadName): the value, or None
StatusLookup(t) == IF Tracked(t) THEN threadsInProgress[t] ELSE "None"

\* Search._threadStatusCB(threadName, threadStatus), called through the
\* threadStatusChanged signal by the thread that changes the status:
\* recipient = self._threadsInProgress.get(threadName); "if recipient:"
\* is false for None (searchId is a non-empty string in SearchIds)
StatusGet(t, status) ==
    /\ st_pc = "idle"
    /\ DeliveriesMade < MaxCallbacks
    /\ st_calls' = st_calls + 1
    /\ IF StatusLookup(t) # "None"
       THEN /\ st_pc' = "send"
            /\ st_thread' = t
            /\ st_status' = status
            /\ st_recipient' = StatusLookup(t)
       ELSE UNCHANGED <<st_pc, st_thread, st_status, st_recipient>>
    /\ UNCHANGED <<status_sent, status_errors>>
    /\ StatusFrame

\* statusId = SEARCH_STATUS_PREFIX + recipient; pyotherside.send(statusId,
\* threadStatus): SEARCH_STATUS_PREFIX is a name this file never binds;
\* unbound, the callback ends here with NameError
StatusSend ==
    /\ st_pc = "send"
    /\ IF globals_bound
       THEN /\ status_sent' = status_sent \cup
                 {[n |-> st_calls, thread |-> st_thread,
                   id |-> <<SEARCH_STATUS_PREFIX, st_recipient>>,
                   status |-> st_status]}
            /\ UNCHANGED status_errors
       ELSE /\ status_errors' = status_errors \cup {st_thread}
            /\ UNCHANGED status_sent
    /\ st_pc' = "idle"
    /\ st_thread' = NoThread
    /\ st_status' = "None"
    /\ st_recipient' = "None"
    /\ UNCHANGED st_calls
    /\ StatusFrame

\* Search._threadStatusCB
threadStatusCB ==
    \/ \E t \in Threads, status \in ThreadStatuses : StatusGet(t, status)
    \/ StatusSend

\* Search.search, run by the caller
search ==
    \/ \E searchId \in SearchIds : SearchStart(searchId)
    \/ SearchNoJob
    \/ SearchRecord

\* Search._searchCB, run by search thread t
searchCB(t) ==
    \/ SearchCBSend(t)
    \/ SearchCBCheck(t)
    \/ SearchCBDel(t)

\* Search.cancelSearch, run by the caller
cancelSearch ==
    \/ \E t \in Threads : CancelStart(t)
    \/ CancelCheck
    \/ CancelDel

SearchNext ==
    \/ search
    \/ \E t \in Threads : searchCB(t)
    \/ \E t \in Threads : ThreadEnd(t)
    \/ cancelSearch
    \/ threadStatusCB

\* ======================================================= temporary streams
\* the threads the calls of the QML side arrive on: the GUI thread
\* (synchronous calls) and the worker thread (asynchronous calls)
StreamWorkers == {"gui", "worker"}
StreamObjs == 1..MaxStreams
NoStream == 0
Messages == 1..MaxMessages
\* the messages that are twitter.Status objects: all but one, a message of
\* another kind
OtherMessage == 2
StatusMessages == Messages \ {OtherMessage}
\* the "id_str" values a caller can pass: the ones of the messages and one
\* that is the id of no message
NoMessage == 0
MessageIds == Messages \cup {NoMessage}
\* the persistent streams of stream_manager.stream_dict: one stream, "home"
HomeName == <<"h", "o", "m", "e">>
HomeStream == MaxStreams + 1
stream_dict == (HomeName :> HomeStream)
AllStreams == StreamObjs \cup {HomeStream}
\* the stream ids a caller can pass: the ones issued to MaxStreams streams and
\* one that is never issued
TempIds == {Str(k) : k \in 0..MaxStreams}
\* the stream names a caller can pass
StreamNames == TempIds \cup {HomeName}

\* constants.MessageType.TWEET.value, and a message type that is not known
TWEET == <<"t", "w", "e", "e", "t">>
UnknownType == <<"d", "m">>
MessageTypes == {TWEET, UnknownType}

\* "%s_%s" % (message_type, message_id)
Format(message_type, message_id) == message_type \o <<"_">> \o message_id

\* str.split(sep): the parts between the separators
RECURSIVE Split(_, _)
Split(str, sep) ==
    IF str = <<>> THEN << <<>> >>
    ELSE IF Head(str) = sep THEN << <<>> >> \o Split(Tail(str), sep)
    ELSE LET parts == Split(Tail(str), sep)
         IN << <<Head(str)>> \o Head(parts) >> \o Tail(parts)

\* isinstance(message, twitter.Status)
IsStatus(m) == m \in StatusMessages

\* the loop "for message in stream.messages": the supported messages, in
\* the order of the stream; the others are logged and skipped
RECURSIVE MessageList(_)
MessageList(messages) ==
    IF messages = <<>> THEN <<>>
    ELSE IF IsStatus(Head(messages))
         THEN <<Head(messages)>> \o MessageList(Tail(messages))
         ELSE MessageList(Tail(messages))

\* get_stream_messages, the head of "if stream.active_message_id": the id
\* part of an active message id of type TWEET, None (the empty string here)
\* otherwise; [1] of a split with one part is an IndexError
IndexError == <<"IndexError">>
ActiveMessageId(active) ==
    IF active = <<>> THEN <<>>
    ELSE IF Split(active, "_")[1] # TWEET THEN <<>>
    ELSE IF Len(Split(active, "_")) < 2 THEN IndexError
    ELSE Split(active, "_")[2]

\* process_twitter_message(message, active_message_id), its second result:
\* the message is the one the active id names
Matches(m, active) == Str(m) = active

\* match_index of no match (None)
NoMatch == -1

\* a mutated loop that reports the first message as the match
FirstIndex(message_list, active) == 0

\* the match_index the loop ends with: the (0-based) index of the last
\* message process_twitter_message reports as matching the active id
MatchIndex(message_list, active) ==
    LET matching == {i \in DOMAIN message_list : Matches(message_list[i], active)}
    IN IF matching = {} THEN NoMatch
       ELSE (CHOOSE i \in matching : \A j \in matching : j <= i) - 1

NoSam == [name |-> <<>>, type |-> <<>>, m |-> NoMessage, error |-> "None",
          saved |-> FALSE]
NoGsm == [name |-> <<>>, found |-> FALSE, list |-> <<>>, match |-> NoMatch,
          error |-> "None"]

\* the message ids of a message list
IdsOf(messages) == {messages[i] : i \in DOMAIN messages}

\* a set of messages as a list, newest (largest id) first
RECURSIVE NewestFirst(_)
NewestFirst(S) ==
    IF S = {} THEN <<>>
    ELSE LET m == CHOOSE x \in S : \A y \in S : y <= x
         IN <<m>> \o NewestFirst(S \ {m})

\* Stream.refresh, the fetch: of what the sources return, the messages whose
\* id is not in stream.messages yet
FetchNew(feed, messages) == NewestFirst(feed \ IdsOf(messages))

\* Stream.refresh, the merge of the new messages into stream.messages,
\* keeping newest-first order
RECURSIVE MergeNew(_, _)
MergeNew(new, messages) ==
    IF new = <<>> THEN messages
    ELSE IF messages = <<>> THEN new
    ELSE IF Head(new) >= Head(messages)
         THEN <<Head(new)>> \o MergeNew(Tail(new), messages)
         ELSE <<Head(messages)>> \o MergeNew(new, Tail(messages))

StreamInit ==
    /\ temporary_streams = <<>>
    /\ temp_db = {}
    /\ stream_messages = [s \in AllStreams |-> <<>>]
    /\ active_message_id = [s \in AllStreams |-> <<>>]
    /\ refresh_returns = [s \in AllStreams |-> {}]
    /\ returned_twice = FALSE
    /\ sam_last = NoSam
    /\ gsm_last = NoGsm
    /\ streams_created = 0
    /\ ts_pc = [w \in StreamWorkers |-> "idle"]
    /\ ts_stream = [w \in StreamWorkers |-> NoStream]
    /\ ts_id = [w \in StreamWorkers |-> <<>>]
    /\ ts_new = [w \in StreamWorkers |-> <<>>]
    /\ ts_ops = 0
    /\ ts_removed = {}
    /\ ts_absent = <<>>
    /\ ts_key_error = FALSE

\* a thread is free to start a call
CanCall(w) == ts_pc[w] = "idle" /\ ts_ops < MaxStreamOps

\* get_hashtag_stream, get_user_tweets_stream, get_user_favorites_stream,
\* get_list_stream, get_search_stream up to the call of
\* _store_temporary_stream: MessageStream.new and <Source>.new create the
\* stream and source records in self._temp_db, and the first refresh() of the
\* new, not yet shared stream fills its messages from the feed
TempStreamNew(w, feed) ==
    /\ CanCall(w)
    /\ streams_created < MaxStreams
    /\ tempdir_exists
    /\ ts_ops' = ts_ops + 1
    /\ streams_created' = streams_created + 1
    /\ temp_db' = temp_db \cup {streams_created + 1}
    /\ stream_messages' = [stream_messages EXCEPT ![streams_created + 1] =
                             MergeNew(FetchNew(feed, <<>>), <<>>)]
    /\ refresh_returns' = [refresh_returns EXCEPT ![streams_created + 1] =
                             IdsOf(MessageList(FetchNew(feed, <<>>)))]
    /\ ts_stream' = [ts_stream EXCEPT ![w] = streams_created + 1]
    /\ ts_pc' = [ts_pc EXCEPT ![w] = "store_id"]
    /\ UNCHANGED <<temporary_streams, ts_id, ts_new, ts_removed, ts_absent, ts_key_error>>
    /\ UNCHANGED <<active_message_id, returned_twice, sam_last, gsm_last>>
    /\ UNCHANGED idVars
    /\ MessageFrame

\* a mutated "+= 1" that leaves the counter as it is
NotIncremented(n) == n

\* self._temporary_stream_id += 1
Incremented(n) == n + 1

\* _store_temporary_stream: temporary_stream_id = self.get_temporary_stream_id()
\* (the with block of get_temporary_stream_id in one step: the lock keeps
\* every other access to the counter out of it)
StoreGetId(w) ==
    /\ ts_pc[w] = "store_id"
    /\ id_lock = NoOwner
    /\ temporary_stream_id' = Incremented(temporary_stream_id)
    /\ ts_id' = [ts_id EXCEPT ![w] = Str(temporary_stream_id')]
    /\ ts_pc' = [ts_pc EXCEPT ![w] = "store_write"]
    /\ UNCHANGED <<temporary_streams, temp_db, stream_messages, streams_created,
                   ts_stream, ts_new, ts_ops, ts_removed, ts_absent, ts_key_error>>
    /\ UNCHANGED <<id_lock, id_pc, id_tmp, id_ret, id_before, id_calls, id_rets>>
    /\ StreamFrame

\* self._temporary_streams[temporary_stream_id] = stream; return temporary_stream_id
StoreWrite(w) ==
    /\ ts_pc[w] = "store_write"
    /\ temporary_streams' = (ts_id[w] :> ts_stream[w]) @@ temporary_streams
    /\ ts_pc' = [ts_pc EXCEPT ![w] = "idle"]
    /\ ts_stream' = [ts_stream EXCEPT ![w] = NoStream]
    /\ ts_id' = [ts_id EXCEPT ![w] = <<>>]
    /\ UNCHANGED <<temp_db, stream_messages, streams_created, ts_new, ts_ops,
                   ts_removed, ts_absent, ts_key_error>>
    /\ UNCHANGED idVars
    /\ StreamFrame

\* the ids and the stream objects of the entries deleted so far
RemovedIds == {r[1] : r \in ts_removed}
RemovedStreams == {r[2] : r \in ts_removed}

\* a mutated membership test that finds every id
AlwaysStored(id) == TRUE

\* stream_name in self._temporary_streams
IsStored(id) == id \in DOMAIN temporary_streams

\* remove_temporary_stream: if stream_name in self._temporary_streams:
RemoveCheck(w, id) ==
    /\ CanCall(w)
    /\ ts_ops' = ts_ops + 1
    /\ IF IsStored(id)
       THEN /\ ts_pc' = [ts_pc EXCEPT ![w] = "remove_del"]
            /\ ts_id' = [ts_id EXCEPT ![w] = id]
            /\ UNCHANGED ts_absent
       ELSE /\ ts_absent' = Append(ts_absent,
                                   [id |-> id, again |-> id \in RemovedIds])
            /\ UNCHANGED <<ts_pc, ts_id>>
    /\ UNCHANGED <<temporary_streams, temp_db, stream_messages, streams_created,
                   ts_stream, ts_new, ts_removed, ts_key_error>>
    /\ UNCHANGED idVars
    /\ StreamFrame

\* del self._temporary_streams[stream_name]  (KeyError when already gone)
RemoveDel(w) ==
    /\ ts_pc[w] = "remove_del"
    /\ IF ts_id[w] \in DOMAIN temporary_streams
       THEN /\ temporary_streams' =
                 [x \in DOMAIN temporary_streams \ {ts_id[w]} |-> temporary_streams[x]]
            /\ ts_removed' = ts_removed \cup {<<ts_id[w], temporary_streams[ts_id[w]]>>}
            /\ UNCHANGED ts_key_error
       ELSE /\ ts_key_error' = TRUE
            /\ UNCHANGED <<temporary_streams, ts_removed>>
    /\ ts_pc' = [ts_pc EXCEPT ![w] = "idle"]
    /\ ts_id' = [ts_id EXCEPT ![w] = <<>>]
    /\ UNCHANGED <<temp_db, stream_messages, streams_created, ts_stream, ts_new,
                   ts_ops, ts_absent>>
    /\ UNCHANGED idVars
    /\ StreamFrame

\* self._temporary_streams.get(stream_name): the stream, or None
TempStreamGet(id) ==
    IF id \in DOMAIN temporary_streams THEN temporary_streams[id] ELSE NoStream

\* stream_module.stream_manager.stream_dict.get(stream_name, None)
NamedStreamGet(name) ==
    IF name \in DOMAIN stream_dict THEN stream_dict[name] ELSE NoStream

\* the lookup of get_stream_messages and of refresh_stream:
\* "if temporary: ... else: ..."
StreamGet(name, temporary) ==
    IF temporary THEN TempStreamGet(name) ELSE NamedStreamGet(name)

\* get_stream_messages(stream_name, temporary): the lookup; without a stream
\* it logs an error and returns [[], None]
MessagesGet(w, name, temporary) ==
    /\ CanCall(w)
    /\ ts_ops' = ts_ops + 1
    /\ IF StreamGet(name, temporary) # NoStream
       THEN /\ ts_pc' = [ts_pc EXCEPT ![w] = "read_messages"]
            /\ ts_stream' = [ts_stream EXCEPT ![w] = StreamGet(name, temporary)]
            /\ ts_id' = [ts_id EXCEPT ![w] = name]
            /\ UNCHANGED gsm_last
       ELSE /\ gsm_last' = [NoGsm EXCEPT !.name = name]
            /\ UNCHANGED <<ts_pc, ts_stream, ts_id>>
    /\ UNCHANGED <<temporary_streams, temp_db, stream_messages, streams_created,
                   ts_new, ts_removed, ts_absent, ts_key_error>>
    /\ UNCHANGED <<active_message_id, refresh_returns, returned_twice, sam_last>>
    /\ UNCHANGED idVars
    /\ MessageFrame

\* get_stream_messages: the active message id, the loop over stream.messages
\* and the return of [message_list, match_index]
MessagesRead(w) ==
    /\ ts_pc[w] = "read_messages"
    /\ ts_pc' = [ts_pc EXCEPT ![w] = "idle"]
    /\ ts_stream' = [ts_stream EXCEPT ![w] = NoStream]
    /\ ts_id' = [ts_id EXCEPT ![w] = <<>>]
    /\ LET active == ActiveMessageId(active_message_id[ts_stream[w]])
           message_list == MessageList(stream_messages[ts_stream[w]])
       IN gsm_last' =
            IF active = IndexError
            THEN [name |-> ts_id[w], found |-> TRUE, list |-> <<>>,
                  match |-> NoMatch, error |-> "IndexError"]
            ELSE [name |-> ts_id[w], found |-> TRUE, list |-> message_list,
                  match |-> MatchIndex(message_list, active), error |-> "None"]
    /\ UNCHANGED <<temporary_streams, temp_db, stream_messages, streams_created,
                   ts_new, ts_ops, ts_removed, ts_absent, ts_key_error>>
    /\ UNCHANGED <<active_message_id, refresh_returns, returned_twice, sam_last>>
    /\ UNCHANGED idVars
    /\ MessageFrame

\* refresh_stream(stream_name, temporary): the lookup; without a stream it
\* logs an error and returns []; with one it calls stream.refresh()
RefreshGet(w, name, temporary) ==
    /\ CanCall(w)
    /\ ts_ops' = ts_ops + 1
    /\ IF StreamGet(name, temporary) # NoStream
       THEN /\ ts_pc' = [ts_pc EXCEPT ![w] = "refresh_fetch"]
            /\ ts_stream' = [ts_stream EXCEPT ![w] = StreamGet(name, temporary)]
       ELSE UNCHANGED <<ts_pc, ts_stream>>
    /\ UNCHANGED <<temporary_streams, temp_db, stream_messages, streams_created,
                   ts_id, ts_new, ts_removed, ts_absent, ts_key_error>>
    /\ UNCHANGED idVars
    /\ StreamFrame

\* stream.refresh(): the sources are fetched and the messages not yet in
\* stream.messages are kept as new
RefreshFetch(w, feed) ==
    /\ ts_pc[w] = "refresh_fetch"
    /\ ts_new' = [ts_new EXCEPT ![w] = FetchNew(feed, stream_messages[ts_stream[w]])]
    /\ ts_pc' = [ts_pc EXCEPT ![w] = "refresh_merge"]
    /\ UNCHANGED <<temporary_streams, temp_db, stream_messages, streams_created,
                   ts_stream, ts_id, ts_ops, ts_removed, ts_absent, ts_key_error>>
    /\ UNCHANGED idVars
    /\ StreamFrame

\* stream.refresh(): the new messages are merged into stream.messages and
\* returned; refresh_stream turns them into message_list and returns it
RefreshMerge(w) ==
    /\ ts_pc[w] = "refresh_merge"
    /\ stream_messages' = [stream_messages EXCEPT ![ts_stream[w]] =
                             MergeNew(ts_new[w], @)]
    /\ refresh_returns' = [refresh_returns EXCEPT ![ts_stream[w]] =
                             @ \cup IdsOf(MessageList(ts_new[w]))]
    /\ returned_twice' =
         (returned_twice \/
          IdsOf(MessageList(ts_new[w])) \cap refresh_returns[ts_stream[w]] # {})
    /\ ts_pc' = [ts_pc EXCEPT ![w] = "idle"]
    /\ ts_stream' = [ts_stream EXCEPT ![w] = NoStream]
    /\ ts_new' = [ts_new EXCEPT ![w] = <<>>]
    /\ UNCHANGED <<temporary_streams, temp_db, streams_created, ts_id, ts_ops,
                   ts_removed, ts_absent, ts_key_error>>
    /\ UNCHANGED <<active_message_id, sam_last, gsm_last>>
    /\ UNCHANGED idVars
    /\ MessageFrame

\* a mutated test that takes every message type as known
AnyTypeKnown(message_type) == TRUE

\* message_type == constants.MessageType.TWEET.value
IsKnownType(message_type) == message_type = TWEET

\* set_stream_active_message(stream_name, message_data): for a message of
\* type TWEET the named stream gets the active message id and is saved;
\* without such a stream, and for any other message type, an error is logged
set_stream_active_message(w, name, message_type, m) ==
    /\ CanCall(w)
    /\ ts_ops' = ts_ops + 1
    /\ IF IsKnownType(message_type) /\ NamedStreamGet(name) # NoStream
       THEN /\ active_message_id' =
                 [active_message_id EXCEPT ![NamedStreamGet(name)] =
                    Format(message_type, Str(m))]
            /\ sam_last' = [name |-> name, type |-> message_type, m |-> m,
                            error |-> "None", saved |-> TRUE]
       ELSE /\ sam_last' = [name |-> name, type |-> message_type, m |-> m,
                            error |-> "None", saved |-> FALSE]
            /\ UNCHANGED active_message_id
    /\ gsm_last' = NoGsm
    /\ UNCHANGED <<refresh_returns, returned_twice>>
    /\ UNCHANGED streamVarsButOps
    /\ UNCHANGED idVars
    /\ MessageFrame

\* get_hashtag_stream and the other constructors of temporary streams
get_temporary_stream(w) ==
    \/ \E feed \in SUBSET Messages : TempStreamNew(w, feed)
    \/ StoreGetId(w)
    \/ StoreWrite(w)

remove_temporary_stream(w) ==
    \/ \E id \in TempIds : RemoveCheck(w, id)
    \/ RemoveDel(w)

get_stream_messages(w) ==
    \/ \E name \in StreamNames, temporary \in BOOLEAN : MessagesGet(w, name, temporary)
    \/ MessagesRead(w)

refresh_stream(w) ==
    \/ \E name \in StreamNames, temporary \in BOOLEAN : RefreshGet(w, name, temporary)
    \/ \E feed \in SUBSET Messages : RefreshFetch(w, feed)
    \/ RefreshMerge(w)

StreamsNext ==
    \/ \E w \in StreamWorkers : get_temporary_stream(w)
    \/ \E w \in StreamWorkers : remove_temporary_stream(w)
    \/ \E w \in StreamWorkers : get_stream_messages(w)
    \/ \E w \in StreamWorkers : refresh_stream(w)
    \/ GuiShutdown

\* the calls on the messages of the streams
MessagesNext ==
    \/ \E w \in StreamWorkers : get_temporary_stream(w)
    \/ \E w \in StreamWorkers : get_stream_messages(w)
    \/ \E w \in StreamWorkers : refresh_stream(w)
    \/ \E w \in StreamWorkers, name \in StreamNames, message_type \in MessageTypes,
          m \in MessageIds : set_stream_active_message(w, name, message_type, m)

\* ================================================================ accounts
\* the threads the calls arrive on, as for Streams
AccountThreads == StreamWorkers
\* the account added to the application: the account_username of the calls
Account == 1
Usernames == {Account}
NoUser == 0
NoCache == 0
\* the empty user info of a cache without data, and the profile the remote
\* service returns for an account
NoInfo == [screen_name |-> NoUser]
UserInfoOf(u) == [screen_name |-> u]
\* the modes a fetched list can have: the two known ones and another one
ListModes == {"private", "public", "secret"}
\* what one fetch of the lists returns: up to MaxLists lists, in fetch order,
\* each with a mode
FetchedModes == UNION {[1..n -> ListModes] : n \in 0..MaxLists}
ListsOf(modes) == [i \in DOMAIN modes |-> [id |-> i, mode |-> modes[i]]]
\* the list a call of create_list returns
NewListId == 0
CreatedList(private) ==
    [id |-> NewListId, mode |-> IF private THEN "private" ELSE "public"]

\* AccountInfoCache.new: a cache without data that is not valid
NewCache(u) ==
    [username |-> u, user_info |-> NoInfo, private_lists |-> <<>>,
     public_lists |-> <<>>, valid |-> FALSE]

\* AccountInfoCache.clear: the data is dropped and the cache is not valid
Clear(cache) ==
    [cache EXCEPT !.user_info = NoInfo, !.private_lists = <<>>,
                  !.public_lists = <<>>, !.valid = FALSE]

\* AccountInfoCache.add_lists: the lists are appended to the two partitions
AddLists(cache, private_lists, public_lists) ==
    [cache EXCEPT !.private_lists = @ \o private_lists,
                  !.public_lists = @ \o public_lists]

\* the refresh marks the cache valid
MarkValid(cache) == [cache EXCEPT !.valid = TRUE]

\* AccountInfoCache.save(commit=True): the record of the account is replaced
Save(db, cache) ==
    [x \in DOMAIN db \cup {cache.username} |->
       IF x = cache.username THEN cache ELSE db[x]]

\* AccountInfoCache.new(db=cache_db, ...): the new cache is a record of the
\* database from its construction on
PersistNew(db, cache) == Save(db, cache)

\* a mutated filter that keeps every list
AllLists(lists) == lists

\* _fetch_lists_owned_by_account, the loop: the lists with mode "private"
RECURSIVE PrivateLists(_)
PrivateLists(lists) ==
    IF lists = <<>> THEN <<>>
    ELSE IF Head(lists).mode = "private"
         THEN <<Head(lists)>> \o PrivateLists(Tail(lists))
         ELSE PrivateLists(Tail(lists))

\* _fetch_lists_owned_by_account, the loop: the lists with mode "public"
RECURSIVE PublicLists(_)
PublicLists(lists) ==
    IF lists = <<>> THEN <<>>
    ELSE IF Head(lists).mode = "public"
         THEN <<Head(lists)>> \o PublicLists(Tail(lists))
         ELSE PublicLists(Tail(lists))

\* a mutated call that passes the new list as a private one always
AlwaysPrivate(private, list_data) == <<list_data>>

\* _on_list_created: the private_lists argument of add_lists
PrivateArg(private, list_data) == IF private THEN <<list_data>> ELSE <<>>

\* _on_list_created: the public_lists argument of add_lists
PublicArg(private, list_data) == IF private THEN <<>> ELSE <<list_data>>

\* a mutated assignment that leaves the cache out of the map
NotRegistered(map, u, c) == map

\* self._account_caches[account_username] = cache
Registered(map, u, c) == (u :> c) @@ map

\* a mutated test that takes no cache as valid
NeverValid(cache) == FALSE

\* if cache.valid:
IsValid(cache) == cache.valid

AccountOps == {"get_account_user_info", "get_lists_owned_by_account",
               "_on_list_created"}
NoCall == [op |-> "None", user |-> NoUser, cache |-> NoCache, info |-> NoInfo,
           valid |-> FALSE, refreshed |-> FALSE, failed |-> "none",
           returned |-> "nothing"]

AccountsInit ==
    /\ account_caches = <<>>
    /\ caches = <<>>
    /\ cache_db = <<>>
    /\ ac_pc = [w \in AccountThreads |-> "idle"]
    /\ ac_op = [w \in AccountThreads |-> "None"]
    /\ ac_user = [w \in AccountThreads |-> NoUser]
    /\ ac_cache = [w \in AccountThreads |-> NoCache]
    /\ ac_info = [w \in AccountThreads |-> NoInfo]
    /\ ac_before = [w \in AccountThreads |-> NewCache(NoUser)]
    /\ ac_ops = 0
    /\ ac_last = NoCall

\* the call of a thread ends: its local variables are gone
Returned(w, result) ==
    /\ ac_last' = result
    /\ ac_pc' = [ac_pc EXCEPT ![w] = "idle"]
    /\ ac_op' = [ac_op EXCEPT ![w] = "None"]
    /\ ac_user' = [ac_user EXCEPT ![w] = NoUser]
    /\ ac_cache' = [ac_cache EXCEPT ![w] = NoCache]
    /\ ac_info' = [ac_info EXCEPT ![w] = NoInfo]
    /\ ac_before' = [ac_before EXCEPT ![w] = NewCache(NoUser)]

\* what a call that ends with the cache c reports
ResultOf(w, c, refreshed, failed) ==
    [op |-> ac_op[w], user |-> ac_user[w], cache |-> ac_cache[w],
     info |-> c.user_info, valid |-> c.valid, refreshed |-> refreshed,
     failed |-> failed,
     returned |-> IF failed = "profile" THEN "nothing" ELSE "cache"]

\* Accounts.__init__ of a later run of the application: the map of caches is
\* empty again and the cache objects of the earlier run are gone, the cache
\* records of the database are still there
AccountsRestart ==
    /\ \A w \in AccountThreads : ac_pc[w] = "idle"
    /\ account_caches # <<>>
    /\ account_caches' = <<>>
    /\ caches' = <<>>
    /\ UNCHANGED <<cache_db, ac_pc, ac_op, ac_user, ac_cache, ac_info, ac_before,
                   ac_ops, ac_last>>
    /\ AccountFrame

\* _get_account_cache: cache = self._account_caches.get(account_username),
\* at the start of one of the calls that use it
CacheLookup(w, u, op) ==
    /\ ac_pc[w] = "idle"
    /\ ac_ops < MaxAccountOps
    /\ ac_ops' = ac_ops + 1
    /\ ac_op' = [ac_op EXCEPT ![w] = op]
    /\ ac_user' = [ac_user EXCEPT ![w] = u]
    /\ IF u \in DOMAIN account_caches
       THEN /\ ac_cache' = [ac_cache EXCEPT ![w] = account_caches[u]]
            /\ ac_pc' = [ac_pc EXCEPT ![w] = "have_cache"]
       ELSE /\ ac_pc' = [ac_pc EXCEPT ![w] = "load_cache"]
            /\ UNCHANGED ac_cache
    /\ UNCHANGED <<account_caches, caches, cache_db, ac_info, ac_before, ac_last>>
    /\ AccountFrame

\* _get_account_cache, "if not cache": the cache is loaded from the database
\* or, when the database has none (DoesNotExist), created by
\* AccountInfoCache.new, and stored in the map
CacheLoad(w) ==
    /\ ac_pc[w] = "load_cache"
    /\ LET u == ac_user[w]
           cache == IF u \in DOMAIN cache_db THEN cache_db[u] ELSE NewCache(u)
       IN /\ caches' = Append(caches, cache)
          /\ cache_db' = IF u \in DOMAIN cache_db THEN cache_db
                         ELSE PersistNew(cache_db, cache)
          /\ account_caches' = Registered(account_caches, u, Len(caches) + 1)
          /\ ac_cache' = [ac_cache EXCEPT ![w] = Len(caches) + 1]
    /\ ac_pc' = [ac_pc EXCEPT ![w] = "have_cache"]
    /\ UNCHANGED <<ac_op, ac_user, ac_info, ac_before, ac_ops, ac_last>>
    /\ AccountFrame

\* get_account_user_info: return self._get_account_cache(...).user_info
UserInfoReturn(w) ==
    /\ ac_pc[w] = "have_cache"
    /\ ac_op[w] = "get_account_user_info"
    /\ Returned(w, ResultOf(w, caches[ac_cache[w]], FALSE, "none"))
    /\ UNCHANGED <<account_caches, caches, cache_db, ac_ops>>
    /\ AccountFrame

\* _on_list_created after _get_account_cache: add_lists with the new list
\* in one partition, then cache.save(commit=True)
ListCreated(w, private) ==
    /\ ac_pc[w] = "have_cache"
    /\ ac_op[w] \in {"_on_list_created", "create_new_list"}
    /\ ac_op[w] = "create_new_list" => private = lm_private[w]
    /\ LET list_data == CreatedList(private)
           cache == AddLists(caches[ac_cache[w]], PrivateArg(private, list_data),
                             PublicArg(private, list_data))
       IN /\ caches' = [caches EXCEPT ![ac_cache[w]] = cache]
          /\ cache_db' = Save(cache_db, cache)
          /\ IF ac_op[w] = "create_new_list"
             THEN /\ ac_pc' = [ac_pc EXCEPT ![w] = "notify"]
                  /\ UNCHANGED <<ac_op, ac_user, ac_cache, ac_info, ac_before,
                                 ac_last>>
             ELSE Returned(w, ResultOf(w, cache, FALSE, "none"))
    /\ UNCHANGED <<account_caches, ac_ops>>
    /\ AccountFrame

\* _get_cache_for_account after _get_account_cache: a valid cache is
\* returned as it is, any other is cleared and refreshed
CacheCheck(w) ==
    /\ ac_pc[w] = "have_cache"
    /\ ac_op[w] = "get_lists_owned_by_account"
    /\ IF IsValid(caches[ac_cache[w]])
       THEN /\ Returned(w, ResultOf(w, caches[ac_cache[w]], FALSE, "none"))
            /\ UNCHANGED caches
       ELSE /\ caches' = [caches EXCEPT ![ac_cache[w]] = Clear(@)]
            /\ ac_pc' = [ac_pc EXCEPT ![w] = "fetch_profile"]
            /\ ac_before' = [ac_before EXCEPT ![w] = caches[ac_cache[w]]]
            /\ UNCHANGED <<ac_op, ac_user, ac_cache, ac_info, ac_last>>
    /\ UNCHANGED <<account_caches, cache_db, ac_ops>>
    /\ AccountFrame

\* user_info = user_module.get_user_info(api, account_username).AsDict():
\* the profile, or the exception of the fetch, which nothing catches
FetchProfile(w, ok) ==
    /\ ac_pc[w] = "fetch_profile"
    /\ IF ok
       THEN /\ ac_info' = [ac_info EXCEPT ![w] = UserInfoOf(ac_user[w])]
            /\ ac_pc' = [ac_pc EXCEPT ![w] = "fetch_lists"]
            /\ UNCHANGED <<ac_op, ac_user, ac_cache, ac_before, ac_last>>
       ELSE Returned(w, ResultOf(w, caches[ac_cache[w]], TRUE, "profile"))
    /\ UNCHANGED <<account_caches, caches, cache_db, ac_ops>>
    /\ AccountFrame

\* the lists create_list made that the remote service still holds
RemoteCreated == [i \in DOMAIN remote_lists |-> CreatedList(remote_lists[i])]

\* list_module.get_lists(api, account_username): the lists of the account at
\* the remote service, those made by create_list among them
get_lists(modes) == ListsOf(modes) \o RemoteCreated

\* a mutated handler that goes on with the lists although the fetch raised
FetchedAnyway(ok, modes) == get_lists(modes)

\* _fetch_lists_owned_by_account: the lists of list_module.get_lists, or no
\* list when it raises
FetchedLists(ok, modes) == IF ok THEN get_lists(modes) ELSE <<>>

\* _get_cache_for_account from the call of _fetch_lists_owned_by_account on:
\* the fetched lists are split by mode, user_info and the lists are put into
\* the cache, which is valid now, and it is saved
CacheStore(w, ok, modes) ==
    /\ ac_pc[w] = "fetch_lists"
    /\ LET lists == FetchedLists(ok, modes)
           cache == MarkValid(AddLists(
                      [caches[ac_cache[w]] EXCEPT !.user_info = ac_info[w]],
                      PrivateLists(lists), PublicLists(lists)))
       IN /\ caches' = [caches EXCEPT ![ac_cache[w]] = cache]
          /\ cache_db' = Save(cache_db, cache)
          /\ Returned(w, ResultOf(w, cache, TRUE,
                                  IF ok THEN "none" ELSE "lists"))
    /\ UNCHANGED <<account_caches, ac_ops>>
    /\ AccountFrame

\* a username no account was added for: the api manager knows neither an API
\* instance nor tokens for it
Stranger == 2
ApiUsernames == Usernames \cup {Stranger}

\* api_module.api_manager.get_twitter_api(account_username=...): the API
\* instance of the account, None for a username without one
ManagerApi(u) == IF u \in Usernames THEN "api" ELSE "None"

\* api_module.api_manager.get_twitter_tokens(account_username=...): the
\* tokens of the account; for a username without tokens None, or an
\* exception of the manager
ManagerTokens(u) == IF u \in Usernames THEN {"tokens"} ELSE {"None", "KeyError"}

\* what a call of Qt5GUI that ends at once reports
ApiResult(op, u, returned, raised) ==
    [NoCall EXCEPT !.op = op, !.user = u, !.returned = returned, !.failed = raised]

\* Qt5GUI.get_twitter_api: the API instance of the manager, or
\* TwitterAPIUsernameNotFound when the manager has none
get_twitter_api(u) ==
    /\ ac_ops < MaxAccountOps
    /\ ac_ops' = ac_ops + 1
    /\ ac_last' = IF ManagerApi(u) = "None"
                  THEN ApiResult("get_twitter_api", u, "nothing",
                                 "TwitterAPIUsernameNotFound")
                  ELSE ApiResult("get_twitter_api", u, ManagerApi(u), "none")
    /\ UNCHANGED <<account_caches, caches, cache_db, ac_pc, ac_op, ac_user,
                   ac_cache, ac_info, ac_before>>
    /\ AccountFrame

\* Qt5GUI.get_twitter_tokens: whatever the manager returns or raises
get_twitter_tokens(u, outcome) ==
    /\ ac_ops < MaxAccountOps
    /\ outcome \in ManagerTokens(u)
    /\ ac_ops' = ac_ops + 1
    /\ ac_last' = IF outcome = "KeyError"
                  THEN ApiResult("get_twitter_tokens", u, "nothing", outcome)
                  ELSE ApiResult("get_twitter_tokens", u, outcome, "none")
    /\ UNCHANGED <<account_caches, caches, cache_db, ac_pc, ac_op, ac_user,
                   ac_cache, ac_info, ac_before>>
    /\ AccountFrame

\* ------------------------------------------------------------------ Lists
ListsInit ==
    /\ remote_lists = <<>>
    /\ lm_private = [w \in AccountThreads |-> FALSE]
    /\ lm_ops = 0
    /\ ui_events = <<>>

\* pyotherside.send(name, account_username)
Sent(name, u) == [event |-> name, account |-> u]

\* how a call of Lists fails: get_twitter_api raises for a username without
\* an API instance, otherwise the call of list_module may raise
ListFailure(u) ==
    IF ManagerApi(u) = "None" THEN "TwitterAPIUsernameNotFound" ELSE "list_module"

\* Lists.create_new_list up to the signal: get_twitter_api and
\* list_module.create_list, either of which may raise
CreateList(w, u, private, ok) ==
    /\ ac_pc[w] = "idle"
    /\ lm_ops < MaxListOps
    /\ lm_ops' = lm_ops + 1
    /\ IF ManagerApi(u) = "None" \/ ~ok
       THEN /\ ac_last' = ApiResult("create_new_list", u, "nothing", ListFailure(u))
            /\ UNCHANGED <<remote_lists, lm_private, ac_pc, ac_op, ac_user>>
       ELSE /\ remote_lists' = Append(remote_lists, private)
            /\ lm_private' = [lm_private EXCEPT ![w] = private]
            /\ ac_pc' = [ac_pc EXCEPT ![w] = "emit"]
            /\ ac_op' = [ac_op EXCEPT ![w] = "create_new_list"]
            /\ ac_user' = [ac_user EXCEPT ![w] = u]
            /\ UNCHANGED ac_last
    /\ UNCHANGED <<account_caches, caches, cache_db, ac_cache, ac_info, ac_before,
                   ac_ops, ui_events>>
    /\ ListFrame

\* self.new_list_created(account_username, private, result): the signal
\* calls _on_list_created, which Accounts._connect_signals connected when the
\* GUI was constructed, in the thread of the caller; the handler starts with
\* the lookup of _get_account_cache
EmitListCreated(w) ==
    /\ ac_pc[w] = "emit"
    /\ IF ac_user[w] \in DOMAIN account_caches
       THEN /\ ac_cache' = [ac_cache EXCEPT ![w] = account_caches[ac_user[w]]]
            /\ ac_pc' = [ac_pc EXCEPT ![w] = "have_cache"]
       ELSE /\ ac_pc' = [ac_pc EXCEPT ![w] = "load_cache"]
            /\ UNCHANGED ac_cache
    /\ UNCHANGED <<account_caches, caches, cache_db, ac_op, ac_user, ac_info,
                   ac_before, ac_ops, ac_last>>
    /\ UNCHANGED listVars
    /\ ListFrame

\* pyotherside.send("userListCreated", account_username), the last statement
\* of create_new_list
NotifyCreated(w) ==
    /\ ac_pc[w] = "notify"
    /\ ui_events' = Append(ui_events, Sent("userListCreated", ac_user[w]))
    /\ lm_private' = [lm_private EXCEPT ![w] = FALSE]
    /\ Returned(w, ResultOf(w, caches[ac_cache[w]], FALSE, "none"))
    /\ UNCHANGED <<account_caches, caches, cache_db, ac_ops, remote_lists, lm_ops>>
    /\ ListFrame

\* the sequence without its i-th element
Without(seq, i) == SubSeq(seq, 1, i - 1) \o SubSeq(seq, i + 1, Len(seq))

\* Lists.destroy_list: get_twitter_api and list_module.destroy_list, either
\* of which may raise (the remote service has no such list, say), then
\* pyotherside.send("userListDestroyed", account_username)
DestroyList(u, i, ok) ==
    /\ lm_ops < MaxListOps
    /\ lm_ops' = lm_ops + 1
    /\ IF ManagerApi(u) = "None" \/ ~ok \/ i \notin DOMAIN remote_lists
       THEN /\ ac_last' = ApiResult("destroy_list", u, "nothing", ListFailure(u))
            /\ UNCHANGED <<remote_lists, ui_events>>
       ELSE /\ remote_lists' = Without(remote_lists, i)
            /\ ui_events' = Append(ui_events, Sent("userListDestroyed", u))
            /\ ac_last' = ApiResult("destroy_list", u, "None", "none")
    /\ UNCHANGED <<account_caches, caches, cache_db, ac_pc, ac_op, ac_user,
                   ac_cache, ac_info, ac_before, ac_ops, lm_private>>
    /\ ListFrame

create_new_list(w) ==
    \/ \E u \in ApiUsernames, private \in BOOLEAN, ok \in BOOLEAN :
         CreateList(w, u, private, ok)
    \/ EmitListCreated(w)
    \/ NotifyCreated(w)

destroy_list ==
    \E u \in ApiUsernames, i \in 1..MaxListOps, ok \in BOOLEAN : DestroyList(u, i, ok)

\* _get_account_cache, as called by the three calls below
get_account_cache(w) ==
    \/ \E u \in Usernames, op \in AccountOps : CacheLookup(w, u, op)
    \/ CacheLoad(w)

get_account_user_info(w) == UserInfoReturn(w)

on_list_created(w) ==
    \E private \in BOOLEAN : ListCreated(w, private)

get_lists_owned_by_account(w) ==
    \/ CacheCheck(w)
    \/ \E ok \in BOOLEAN : FetchProfile(w, ok)
    \/ \E ok \in BOOLEAN, modes \in FetchedModes : CacheStore(w, ok, modes)

AccountsNext ==
    \/ \E w \in AccountThreads : get_account_cache(w)
    \/ \E w \in AccountThreads : get_account_user_info(w)
    \/ \E w \in AccountThreads : on_list_created(w)
    \/ \E w \in AccountThreads : get_lists_owned_by_account(w)
    \/ AccountsRestart
    \/ \E u \in ApiUsernames : get_twitter_api(u)
    \/ \E u \in ApiUsernames, outcome \in {"tokens", "None", "KeyError"} :
         get_twitter_tokens(u, outcome)

\* the account caches with the calls of Lists that create and destroy lists
ListsNext ==
    \/ \E w \in AccountThreads, u \in Usernames :
         CacheLookup(w, u, "get_lists_owned_by_account")
    \/ \E w \in AccountThreads : CacheLoad(w)
    \/ \E w \in AccountThreads : get_lists_owned_by_account(w)
    \/ \E w \in AccountThreads : on_list_created(w)
    \/ AccountsRestart
    \/ \E w \in AccountThreads : create_new_list(w)
    \/ destroy_list

\* ========================================================== specifications
Init ==
    /\ IdInit /\ GuiInit /\ UploadInit /\ SearchInit /\ StreamInit /\ AccountsInit
    /\ ListsInit

Next == IdNext \/ UploadNext \/ SearchNext \/ StreamsNext \/ MessagesNext
          \/ AccountsNext \/ ListsNext

\* the whole program
Spec == Init /\ [][Next]_vars

\* one initial state for the parts that never look at the search environment
QuietInit == Init /\ online = TRUE /\ globals_bound = TRUE

\* the temporary stream id counter and its callers
SpecTempId == QuietInit /\ [][IdNext]_vars

\* the media upload worker, its queue and the GUI shutdown
SpecUpload == QuietInit /\ [][UploadNext]_vars

\* the upload worker and its queue, every item put with the same index
UploadFairNext ==
    \/ upload_media_async(0)
    \/ PutSentinel(0)
    \/ handle_uploads

\* the upload thread keeps running: a step of its loop that can be taken is
\* taken (task.run() reports progress a bounded number of times, so every
\* run ends)
SpecUploadFair == QuietInit /\ [][UploadFairNext]_vars /\ WF_vars(handle_uploads)

\* the search tracker, its caller and the search threads
SpecSearch == Init /\ [][SearchNext]_vars

\* the temporary streams, the threads that call Streams and the GUI shutdown
SpecStreams == QuietInit /\ [][StreamsNext]_vars

\* the messages of the streams and the active message
SpecMessages == QuietInit /\ [][MessagesNext]_vars

\* the account caches
SpecAccounts == QuietInit /\ [][AccountsNext]_vars

\* the account caches and the list management
SpecLists == QuietInit /\ [][ListsNext]_vars

\* the same, where a call that can take a step takes it and calls are made
\* as long as there are calls to make
SpecListsFair == SpecLists /\ WF_vars(ListsNext)

\* ================================================================== claims
\* the number a returned id string stands for
NumOf(str) == CHOOSE n \in -1..MaxIdCalls : Str(n) = str

\* C1: whatever the interleaving of the callers, the N ids returned so far are
\* exactly the decimal strings of 0 .. N-1, each returned once, and the id a
\* call is about to return is larger than every id returned before it started
C1_IdsUniqueAndGapless ==
    /\ {id_rets[i] : i \in 1..Len(id_rets)} = {Str(k) : k \in 0..(Len(id_rets) - 1)}
    /\ \A i, j \in 1..Len(id_rets) : i # j => id_rets[i] # id_rets[j]
    /\ \A c \in IdCallers :
         id_pc[c] = "release" =>
           \A j \in 1..id_before[c] : NumOf(id_rets[j]) < NumOf(id_ret[c])

\* ten ids have been returned, one caller is about to return the two-digit id
\* "10" from inside the lock and another caller is blocked on the lock
C1_Witness ==
    /\ Len(id_rets) = 10
    /\ \E c, d \in IdCallers :
         /\ id_pc[c] = "release"
         /\ id_ret[c] = <<"1", "0">>
         /\ id_before[c] > 0
         /\ id_pc[d] = "acquire"

Terminal(e) == e.status \in {"SUCCESS", "ERROR"}
EventsOf(t) == {i \in DOMAIN upload_events : upload_events[i].task = t}
Started(t) == \E i \in EventsOf(t) : upload_events[i].status = "UPLOADING"
Finished(t) == \E i \in EventsOf(t) : Terminal(upload_events[i])
InFlight == {t \in Tasks : Started(t) /\ ~Finished(t)}

\* C2: at most one task has received UPLOADING and not yet SUCCESS or ERROR
C2_AtMostOneUploading == Cardinality(InFlight) <= 1

\* task 1 is uploading while task 2 waits in the queue
C2_Witness ==
    /\ InFlight = {1}
    /\ task_queue # <<>>
    /\ Head(task_queue).task = 2

\* C3: status events come in enqueue order of their tasks, and when a task
\* gets UPLOADING every task enqueued before it already has its terminal status
C3_FifoAndComplete ==
    /\ \A i, j \in DOMAIN upload_events :
         i < j => upload_events[i].task <= upload_events[j].task
    /\ \A j \in DOMAIN upload_events :
         upload_events[j].status = "UPLOADING" =>
           \A t \in 1..(upload_events[j].task - 1) :
             \E i \in 1..(j - 1) :
               upload_events[i].task = t /\ Terminal(upload_events[i])

\* task 1 is done, task 2 is uploading and only the sentinel is queued behind it
C3_Witness ==
    /\ Finished(1)
    /\ InFlight = {2}
    /\ Len(task_queue) = 1
    /\ task_queue[1].task = None

\* the worker has left the execution of task t behind
WorkerDoneWith(t) == up_cur.task # t \/ up_pc \in {"task_done", "get", "exited"}

\* C4: the events of one task are: one UPLOADING first, then PROGRESS and
\* FINALIZING, then one terminal SUCCESS or ERROR last, all with the task's index
C4_StatusStateMachine ==
    \A t \in Tasks :
      LET E == EventsOf(t) IN
      E # {} =>
        /\ \A i \in E : (upload_events[i].status = "UPLOADING") <=> (\A k \in E : i <= k)
        /\ \A i \in E : upload_events[i].status \in
                          {"UPLOADING", "PROGRESS", "FINALIZING", "SUCCESS", "ERROR"}
        /\ Cardinality({i \in E : Terminal(upload_events[i])}) <= 1
        /\ \A i \in E : Terminal(upload_events[i]) => \A k \in E : k <= i
        /\ \A i, k \in E : upload_events[i].index = upload_events[k].index
        /\ WorkerDoneWith(t) => Finished(t)

\* one task went UPLOADING, PROGRESS, FINALIZING, SUCCESS and another ended in ERROR
C4_Witness ==
    \E t, u \in Tasks :
      /\ \E a, b, c, d \in EventsOf(t) :
           /\ a < b /\ b < c /\ c < d
           /\ upload_events[a].status = "UPLOADING"
           /\ upload_events[b].status = "PROGRESS"
           /\ upload_events[c].status = "FINALIZING"
           /\ upload_events[d].status = "SUCCESS"
           /\ upload_events[d].text = <<"1", "0">>
      /\ \E e \in EventsOf(u) : upload_events[e].status = "ERROR"

\* C5: when task.run() raised, the worker's next step sends ERROR with the
\* task's index and an empty message and goes to task_done, from where it
\* returns to the queue; the worker thread ends only by dequeuing the sentinel
C5_ExceptionReportedWorkerSurvives ==
    [][ /\ (up_pc = "report" /\ up_result.kind = "raise" /\ up_pc' # up_pc) =>
             /\ upload_events' = Append(upload_events,
                    [task |-> up_cur.task, index |-> up_cur.index,
                     status |-> "ERROR", progress |-> 0, text |-> <<>>])
             /\ up_pc' = "task_done"
        /\ (up_pc = "task_done" /\ up_pc' # up_pc) => up_pc' = "get"
        /\ (up_pc # "exited" /\ up_pc' = "exited") =>
             (up_pc = "get" /\ up_cur'.task = None)
      ]_vars

\* two successive tasks raised, both got ERROR with an empty message, and the
\* worker is back at the queue
C5_Witness ==
    /\ up_pc = "get"
    /\ \E i, j \in DOMAIN upload_events :
         /\ upload_events[i].task = 1 /\ upload_events[j].task = 2
         /\ upload_events[i].status = "ERROR" /\ upload_events[i].text = <<>>
         /\ upload_events[j].status = "ERROR" /\ upload_events[j].text = <<>>

SentinelEvents == {i \in DOMAIN upload_events : upload_events[i].task = None}

\* C6: dequeuing the sentinel ends the loop without a status event; once the
\* worker has ended it sends nothing and dequeues nothing; and when it ends no
\* task is left between UPLOADING and its terminal status
C6_SentinelEndsWorkerQuietly ==
    [][ /\ (up_pc = "get" /\ up_pc' # "get" /\ task_queue # <<>>
              /\ Head(task_queue).task = None) =>
             (up_pc' = "exited" /\ upload_events' = upload_events)
        /\ up_pc = "exited" =>
             /\ up_pc' = "exited"
             /\ upload_events' = upload_events
             /\ up_cur' = up_cur
             /\ Len(task_queue') >= Len(task_queue)
             /\ unfinished_tasks' >= unfinished_tasks
        /\ up_pc' = "exited" => (InFlight' = {} /\ SentinelEvents' = {})
      ]_vars

\* the worker ended on the sentinel after executing task 1, and a task put
\* after the sentinel stays in the queue
C6_Witness ==
    /\ up_pc = "exited"
    /\ up_cur.task = None
    /\ Finished(1)
    /\ task_queue # <<>>
    /\ SentinelEvents = {}

\* C7 (as claimed): once Qt5GUI._shutdown has run, the sentinel has been put
\* on the upload queue
C7_ShutdownPutsSentinel == gui_shutdown => sentinel_put

\* C8 (as claimed): no handle gets its mapping recorded after a result
\* callback for it has already been processed
C8_RecordedBeforeAnyResult == late_recorded = {}

\* C9 (as claimed): a result callback for a handle whose mapping is gone does
\* nothing: it forwards no result event and ends without an error
C9_LateResultIsNoOp ==
    /\ \A i \in DOMAIN search_sent : ~search_sent[i].gone
    /\ \A e \in cb_errors : ~e.gone

ResultsForwarded(t) ==
    {i \in DOMAIN search_sent :
       search_sent[i].kind = "result" /\ search_sent[i].thread = t}

\* C10 (as claimed): after two completed result callbacks for one handle,
\* exactly one result event has been forwarded for it
C10_ResultForwardedOnce ==
    \A t \in Threads :
      (th_cbs[t] = 2 /\ th_state[t] \in {"running", "finished"}) =>
        Cardinality(ResultsForwarded(t)) = 1

\* a result callback of thread t has run to its end (normally or by raising)
CallbackCompleted(t) == th_cbs[t] > 0 /\ th_state[t] \in {"running", "finished"}

\* C11 (as claimed): no del of the result callback or of cancelSearch hits an
\* entry the other one already deleted, and once a result callback for a
\* recorded handle has completed the handle is absent from the tracking map
C11_RemovedExactlyOnce ==
    /\ ~key_error
    /\ \A t \in Threads :
         (t \in recorded_ever /\ CallbackCompleted(t)) => ~Tracked(t)

\* the caller is inside cancelSearch and takes a step of it
CancelStep == ui_pc \in {"cancel_check", "cancel_del"} /\ ui_pc' # ui_pc

C13_StatusOnlyForTracked ==
    [][ /\ st_calls' # st_calls =>
             /\ threadsInProgress' = threadsInProgress
             /\ status_sent' = status_sent
             /\ status_errors' = status_errors
             /\ st_pc' = "send" =>
                  /\ st_thread' \in DOMAIN threadsInProgress
                  /\ st_recipient' = th_sid[st_thread']
        /\ status_sent' # status_sent =>
             /\ st_pc = "send"
             /\ status_sent' = status_sent \cup
                  {[n |-> st_calls, thread |-> st_thread,
                    id |-> <<SEARCH_STATUS_PREFIX, th_sid[st_thread]>>,
                    status |-> st_status]}
             /\ st_thread \in recorded_ever
             /\ threadsInProgress' = threadsInProgress
      ]_vars

\* the first status change was for a tracked handle and was forwarded under
\* "search:status:" + "address"; the handle was then cancelled, and the second
\* status change, for the cancelled handle, forwarded nothing
C13_Witness ==
    /\ st_calls = 2
    /\ st_pc = "idle"
    /\ status_errors = {}
    /\ \E e \in status_sent :
         /\ status_sent = {e}
         /\ e.n = 1
         /\ e.id = <<"search:status:", "address">>
         /\ e.thread \in cancelled
         /\ e.thread \notin DOMAIN threadsInProgress
         /\ th_cbs[e.thread] = 0

\* stream object s is still inside its constructor (not yet stored)
BeingStored(s) ==
    \E w \in StreamWorkers :
      ts_stream[w] = s /\ ts_pc[w] \in {"store_id", "store_write"}

\* C14: the step in which _store_temporary_stream writes the map and returns
\* its id uses an id no entry has yet, makes the lookup of that id yield the
\* stream and leaves every other entry as it was; after every step, no two
\* ids lead to the same stream and every stream that has been stored and not
\* removed is found under some id
C14_StoreIndexesUnderFreshId ==
    [][ /\ \A w \in StreamWorkers :
             (ts_pc[w] = "store_write" /\ ts_pc'[w] = "idle") =>
               /\ ts_id[w] \notin DOMAIN temporary_streams
               /\ ts_id[w] \in DOMAIN temporary_streams'
               /\ temporary_streams'[ts_id[w]] = ts_stream[w]
               /\ \A x \in DOMAIN temporary_streams :
                    /\ x \in DOMAIN temporary_streams'
                    /\ temporary_streams'[x] = temporary_streams[x]
        /\ \A x, y \in DOMAIN temporary_streams' :
             x # y => temporary_streams'[x] # temporary_streams'[y]
        /\ \A s \in 1..streams_created' :
             (~BeingStored(s)' /\ s \notin RemovedStreams') =>
               \E x \in DOMAIN temporary_streams' : temporary_streams'[x] = s
      ]_vars

\* two constructors ran concurrently: the stream created second got id "0",
\* the one created first got id "1", and both are in the map
C14_Witness ==
    /\ DOMAIN temporary_streams = {<<"0">>, <<"1">>}
    /\ temporary_streams[<<"0">>] = 2
    /\ temporary_streams[<<"1">>] = 1
    /\ \A w \in StreamWorkers : ts_pc[w] = "idle"

\* C15: a remove_temporary_stream call that finds no entry for its id returns
\* at once: the map, the id counter, the messages of every stream, the
\* scratch store and every thread's position stay as they were and no
\* KeyError is raised; and the del is only ever reached after a membership
\* test that found the id
C15_RemoveAbsentIsNoOp ==
    [][ /\ ts_absent' # ts_absent =>
             /\ temporary_streams' = temporary_streams
             /\ temporary_stream_id' = temporary_stream_id
             /\ stream_messages' = stream_messages
             /\ temp_db' = temp_db
             /\ ts_removed' = ts_removed
             /\ ts_key_error' = ts_key_error
             /\ ts_pc' = ts_pc
        /\ \A w \in StreamWorkers :
             (ts_pc[w] = "idle" /\ ts_pc'[w] = "remove_del") =>
               ts_id'[w] \in DOMAIN temporary_streams
      ]_vars

\* stream 1 was stored under "0" and removed; then "0" was removed a second
\* time, which found nothing and changed nothing
C15_Witness ==
    /\ ts_removed = {<<(<<"0">>), 1>>}
    /\ ts_absent = <<[id |-> <<"0">>, again |-> TRUE]>>
    /\ temporary_streams = <<>>
    /\ temporary_stream_id = 0
    /\ ~ts_key_error
    /\ \A w \in StreamWorkers : ts_pc[w] = "idle"

\* C16 (as claimed): once remove_temporary_stream has deleted the entry of a
\* stream, the stream and source records created for that stream in the
\* scratch store no longer exist
C16_RemoveReleasesRecords ==
    \A s \in RemovedStreams : s \notin temp_db

\* C17 (as claimed): once the shutdown has run, the scratch directory is gone
\* and the temporary map holds no stream any more
C17_ShutdownReleasesAll ==
    gui_shutdown => (~tempdir_exists /\ DOMAIN temporary_streams = {})

\* C18 (as claimed): the map accesses of one call are not interleaved with a
\* map mutation of another: while a thread is between the membership test and
\* the del of remove_temporary_stream, no step of another thread changes the map
C18_MapAccessExclusive ==
    [][ \A w \in StreamWorkers :
          (ts_pc[w] = "remove_del" /\ ts_pc'[w] = "remove_del") =>
            temporary_streams' = temporary_streams
      ]_vars

\* the threads whose refresh_stream call is inside stream.refresh() of stream s
Refreshing(s) ==
    {w \in StreamWorkers :
       ts_stream[w] = s /\ ts_pc[w] \in {"refresh_fetch", "refresh_merge"}}

\* C19 (as claimed): at most one refresh of a given stream is in flight
C19_OneRefreshInFlight ==
    \A s \in StreamObjs : Cardinality(Refreshing(s)) <= 1

\* C20 (as claimed): the message list of a stream never holds the same
\* message id at two positions
C20_NoDuplicateMessageIds ==
    \A s \in StreamObjs :
      \A i, j \in DOMAIN stream_messages[s] :
        i # j => stream_messages[s][i] # stream_messages[s][j]

\* C21 (as claimed): a refresh returns only the messages that call added: no
\* message is returned by two refreshes of the same stream, and once no
\* refresh of a stream is in flight its listing is the newest-first,
\* duplicate-free union of what its refreshes returned
C21_RefreshReturnsOnlyNew ==
    /\ returned_twice = FALSE
    /\ \A s \in AllStreams :
         Refreshing(s) = {} =>
           MessageList(stream_messages[s]) = NewestFirst(refresh_returns[s])

\* a call of set_stream_active_message with a message of unknown type
UnknownTypeStep ==
    \E w \in StreamWorkers, name \in StreamNames, m \in MessageIds :
      set_stream_active_message(w, name, UnknownType, m)

ReadAfterSet ==
    /\ gsm_last.found
    /\ sam_last.type = TWEET
    /\ gsm_last.name = sam_last.name
    /\ sam_last.m \in IdsOf(gsm_last.list)

\* C23 (as claimed): for a stream get_stream_messages can return, persistent
\* or temporary, and a message m of known type in it,
\* set_stream_active_message for m followed by get_stream_messages returns
\* a match index, and the message at that index is m
C23_SetThenGetMatches ==
    ReadAfterSet =>
      /\ gsm_last.match # NoMatch
      /\ gsm_last.list[gsm_last.match + 1] = sam_last.m

\* a message get_stream_messages supports
Supported(m) == m \in StatusMessages

\* the active message ids that name a message of a list
ActiveIdsOf(message_list) == {Format(TWEET, Str(m)) : m \in IdsOf(message_list)}

\* the return of a get_stream_messages call that found its stream
ReadStep(w) == MessagesRead(w)

\* a get_stream_messages call for a name or id no stream is stored under
AbsentStep ==
    \E w \in StreamWorkers, name \in StreamNames, temporary \in BOOLEAN :
      MessagesGet(w, name, temporary) /\ StreamGet(name, temporary) = NoStream

\* what a call that found its stream returns
ReadReturnsSupported ==
    \A w \in StreamWorkers :
      ReadStep(w) =>
        /\ gsm_last'.error = "None"
        /\ gsm_last'.list = SelectSeq(stream_messages[ts_stream[w]], Supported)
        /\ \/ active_message_id[ts_stream[w]] \in ActiveIdsOf(gsm_last'.list)
           \/ gsm_last'.match = NoMatch

\* what a call that found no stream returns and leaves alone
AbsentReturnsEmpty ==
    AbsentStep =>
      /\ gsm_last'.error = "None"
      /\ gsm_last'.list = <<>>
      /\ gsm_last'.match = NoMatch
      /\ UNCHANGED <<active_message_id, streamVarsButOps, idVars>>

\* C24: get_stream_messages never fails because of the active message: it
\* returns all supported messages of the stream, with match index 'none'
\* when the stored active id names none of them (or none is stored); for a
\* name or id without a stream it returns the empty list with match 'none'
\* and changes no state
C24_GetNeverFailsOnActiveId ==
    [][ReadReturnsSupported /\ AbsentReturnsEmpty]_vars

\* a stream with a message whose stored active id names a message it does
\* not hold has been read
C24_Witness ==
    /\ gsm_last.found
    /\ gsm_last.name = HomeName
    /\ gsm_last.list # <<>>
    /\ gsm_last.match = NoMatch
    /\ active_message_id[HomeStream] = Format(TWEET, Str(NoMessage))

\* a _get_account_cache call that finds a cache in the map returns it and
\* leaves the map, the caches and the database alone
HitReturnsRegistered ==
    \A w \in AccountThreads, u \in Usernames, op \in AccountOps :
      CacheLookup(w, u, op) /\ u \in DOMAIN account_caches =>
        /\ ac_cache'[w] = account_caches[u]
        /\ UNCHANGED <<account_caches, caches, cache_db>>

\* a _get_account_cache call that found none returns a new object it has
\* put into the map: the cache of the database or, when the database has
\* none, an invalid cache without data that is in the database from then on
MissLoadsOrCreates ==
    \A w \in AccountThreads :
      CacheLoad(w) =>
        LET u == ac_user[w]
            c == ac_cache'[w]
        IN /\ c \notin DOMAIN caches
           /\ c \in DOMAIN caches'
           /\ u \in DOMAIN account_caches'
           /\ account_caches'[u] = c
           /\ u \in DOMAIN cache_db'
           /\ cache_db'[u] = caches'[c]
           /\ IF u \in DOMAIN cache_db
              THEN caches'[c] = cache_db[u] /\ UNCHANGED cache_db
              ELSE /\ ~caches'[c].valid
                   /\ caches'[c].user_info = NoInfo
                   /\ caches'[c].private_lists = <<>>
                   /\ caches'[c].public_lists = <<>>

C26_ValidCacheReturnedAsIs ==
    [][\A w \in AccountThreads :
         CacheCheck(w) /\ caches[ac_cache[w]].valid =>
           /\ ac_pc'[w] = "idle"
           /\ ac_last'.cache = ac_cache[w]
           /\ ~ac_last'.refreshed
           /\ UNCHANGED <<caches, cache_db, account_caches>>]_vars

\* a call found the cache valid and returned it
C26_Witness ==
    /\ ac_last.op = "get_lists_owned_by_account"
    /\ ac_last.valid
    /\ ~ac_last.refreshed

\* C27 (as claimed): a refresh of an invalid cache ends with a valid cache
\* when the fetches of the profile and of the lists succeed, and leaves the
\* cache invalid when one of them throws
C27_ValidIffFetchesSucceed ==
    ac_last.refreshed => (ac_last.valid <=> ac_last.failed = "none")

\* C28: _on_list_created appends the new list to exactly one partition of
\* the cache (the private one when private is true, the public one
\* otherwise), leaves the lists cached before, the user info and the valid
\* flag as they were, fetches nothing from the remote service and saves the
\* cache
C28_ListCreatedAppendsToOne ==
    [][\A w \in AccountThreads, private \in BOOLEAN :
         ListCreated(w, private) =>
           LET old == caches[ac_cache[w]]
               new == caches'[ac_cache[w]]
           IN /\ new.private_lists =
                   IF private THEN Append(old.private_lists, CreatedList(private))
                   ELSE old.private_lists
              /\ new.public_lists =
                   IF private THEN old.public_lists
                   ELSE Append(old.public_lists, CreatedList(private))
              /\ new.user_info = old.user_info
              /\ new.valid = old.valid
              /\ cache_db'[ac_user[w]] = new
              /\ ac_pc'[w] = "idle"
              /\ \A c \in DOMAIN caches : c # ac_cache[w] => caches'[c] = caches[c]]_vars

\* a list was created for an account whose valid cache held lists already
C28_Witness ==
    /\ ac_last.op = "_on_list_created"
    /\ ac_last.valid
    /\ ac_last.cache \in DOMAIN caches
    /\ Len(caches[ac_last.cache].public_lists) >= 2
    /\ caches[ac_last.cache].private_lists # <<>>

\* what a step appended to a partition of a cache
AppendedTo(old, new) == SubSeq(new, Len(old) + 1, Len(new))

\* a partition holds exactly the fetched lists of one mode, in fetch order
HoldsMode(part, modes, mode) ==
    /\ \A k \in DOMAIN part : part[k].mode = mode
    /\ {part[k].id : k \in DOMAIN part} = {i \in DOMAIN modes : modes[i] = mode}
    /\ \A j, k \in DOMAIN part : j < k => part[j].id < part[k].id

\* C29: of the lists a fetch returns, those with mode 'private' end up in
\* the private partition only, those with mode 'public' in the public one
\* only and those with any other mode in neither; within each partition the
\* lists keep the order of the fetch
C29_ListsPartitionedByMode ==
    [][\A w \in AccountThreads :
         ac_pc[w] = "fetch_lists" =>
           \A modes \in FetchedModes :
             CacheStore(w, TRUE, modes) =>
               LET old == caches[ac_cache[w]]
                   new == caches'[ac_cache[w]]
               IN /\ HoldsMode(AppendedTo(old.private_lists, new.private_lists),
                               modes, "private")
                  /\ HoldsMode(AppendedTo(old.public_lists, new.public_lists),
                               modes, "public")]_vars

\* a refresh stored two fetched private lists
C29_Witness ==
    /\ ac_last.refreshed
    /\ ac_last.failed = "none"
    /\ ac_last.cache \in DOMAIN caches
    /\ Len(caches[ac_last.cache].private_lists) = MaxLists
    /\ caches[ac_last.cache].public_lists = <<>>

\* C30 (as claimed): get_account_user_info takes care of the caching: it
\* queries the remote service when the cache is outdated or not present, so
\* the user info it returns is that of a valid cache
C30_UserInfoOfValidCache ==
    ac_last.op = "get_account_user_info" =>
      /\ ac_last.valid
      /\ ac_last.info = UserInfoOf(ac_last.user)

\* C32 (as claimed): for each account username at most one cache object is
\* constructed and put into the map, also when _get_account_cache is called
\* by two threads at once: no cache in the map is replaced by another
C32_OneCachePerUsername ==
    \A u \in Usernames :
      Cardinality({c \in DOMAIN caches : caches[c].username = u}) <= 1

\* a refresh whose fetch of the lists failed
ListsFailedStep(w) ==
    \E modes \in FetchedModes : CacheStore(w, FALSE, modes)

C31_UnknownUsernameRaises ==
    ac_last.op \in {"get_twitter_api", "get_twitter_tokens"}
      /\ ac_last.user \notin Usernames =>
        /\ ac_last.failed = "TwitterAPIUsernameNotFound"
        /\ ac_last.returned = "nothing"

\* C34 (as claimed): when the profile fetch raises during the refresh of an
\* invalid cache, the call ends with the error, the record of the database
\* is as it was, and the cache holds what it held when the refresh started
C34_FailedRefreshKeepsContent ==
    [][\A w \in AccountThreads :
         FetchProfile(w, FALSE) =>
           /\ ac_last'.failed = "profile"
           /\ UNCHANGED cache_db
           /\ caches'[ac_cache[w]] = ac_before[w]]_vars

\* the cache get_lists_owned_by_account finds for the account: the registered
\* one, else the record of the database, else a new one
WouldReturn(u) ==
    IF u \in DOMAIN account_caches THEN caches[account_caches[u]]
    ELSE IF u \in DOMAIN cache_db THEN cache_db[u]
    ELSE NewCache(u)

\* the cache holds a list that create_list made
HasCreated(cache) ==
    \/ \E i \in DOMAIN cache.private_lists : cache.private_lists[i].id = NewListId
    \/ \E i \in DOMAIN cache.public_lists : cache.public_lists[i].id = NewListId

\* get_lists_owned_by_account would return the lists of its cache as they
\* are, a created list among them
Stale(u) == WouldReturn(u).valid /\ HasCreated(WouldReturn(u))

LastEvent == IF ui_events = <<>> THEN Sent("None", NoUser)
             ELSE ui_events[Len(ui_events)]

\* no call is running, the last list event is the creation of a list of the
\* account, and the lists get_lists_owned_by_account would return without a
\* refresh have the created list
CreatedKept ==
    /\ \A w \in AccountThreads : ac_pc[w] = "idle"
    /\ LastEvent = Sent("userListCreated", Account)
    /\ WouldReturn(Account).valid
    => HasCreated(WouldReturn(Account))

\* the last list event is the destruction of a list of the account and the
\* remote service holds no created list any more
Destroyed ==
    LastEvent = Sent("userListDestroyed", Account) /\ remote_lists = <<>>

\* once the destroyed list is gone from the remote service,
\* get_lists_owned_by_account eventually no longer returns it
DestroyedGone == Destroyed ~> ~Stale(Account)

\* C35 (as claimed): after create_new_list succeeded the created list is
\* among the lists get_lists_owned_by_account returns, and after destroy_list
\* succeeded the destroyed list is eventually no longer among them
C35_CacheFollowsListManagement ==
    []CreatedKept /\ DestroyedGone

\* the created list is in the partition of the cache its privacy names
HoldsCreated(cache, private) ==
    LET lists == IF private THEN cache.private_lists ELSE cache.public_lists
    IN \E i \in DOMAIN lists : lists[i] = CreatedList(private)

\* create_new_list ends at get_twitter_api or list_module.create_list
CreateFailed(w) ==
    \E u \in ApiUsernames, private \in BOOLEAN : CreateList(w, u, private, FALSE)

EventAfterCache(w) ==
    /\ ac_user[w] \in DOMAIN account_caches
    /\ HoldsCreated(caches[account_caches[ac_user[w]]], lm_private[w])
    /\ ac_user[w] \in DOMAIN cache_db
    /\ HoldsCreated(cache_db[ac_user[w]], lm_private[w])

\* C36 (as claimed): when create_new_list sends userListCreated, the cache of
\* the account and its record in the database hold the created list already;
\* when the remote creation raises, no cache and no record changes and no
\* event is sent
C36_CacheUpdatedBeforeEvent ==
    [][\A w \in AccountThreads :
         /\ NotifyCreated(w) => EventAfterCache(w)
         /\ CreateFailed(w) =>
               UNCHANGED <<account_caches, caches, cache_db, ui_events>>]_vars

\* the task was put in front of the sentinel: the worker has not taken a
\* sentinel and the task is in the queue with no sentinel in front of it, or
\* the worker has taken the task from the queue
AheadOfSentinel(t) ==
    \/ \E i \in DOMAIN task_queue :
         /\ ~(up_pc = "exited" /\ up_cur.task = None)
         /\ task_queue[i].task = t
         /\ \A j \in 1..(i - 1) : task_queue[j].task # None
    \/ up_cur.task = t

TerminalEventsOf(t) == {i \in EventsOf(t) : Terminal(upload_events[i])}

\* the task got its terminal status and task_done() was called for it
HandledOnce(t) ==
    /\ Cardinality(TerminalEventsOf(t)) = 1
    /\ ~(up_cur.task = t /\ up_pc # "get")

\* the items put and not yet marked done: those in the queue, the one the
\* worker is handling, and the sentinel, for which the worker calls no
\* task_done()
NotDone ==
    Len(task_queue)
    + (IF up_pc \in {"uploading", "run", "report", "task_done"} THEN 1 ELSE 0)
    + (IF up_pc = "exited" THEN 1 ELSE 0)

\* no task has two terminal events and unfinished_tasks counts the items
\* not yet marked done
AtMostOnce ==
    /\ \A t \in Tasks : Cardinality(TerminalEventsOf(t)) <= 1
    /\ unfinished_tasks = NotDone

\* C37: while the upload thread keeps running, every task put on the queue
\* in front of the sentinel (or with no sentinel) gets exactly one terminal
\* status, SUCCESS or ERROR, and is marked done once; no task gets two
\* terminal events and every item taken is marked done exactly once
C37_EveryTaskHandledOnce ==
    /\ []AtMostOnce
    /\ \A t \in Tasks : AheadOfSentinel(t) ~> HandledOnce(t)

\* two tasks were put in front of the sentinel; the run of the first raised
\* and the second succeeded, both have their one terminal event, and the
\* worker has ended on the sentinel
C37_Witness ==
    /\ up_pc = "exited"
    /\ sentinel_put
    /\ \A t \in {1, 2} : Cardinality(TerminalEventsOf(t)) = 1
    /\ \E i \in EventsOf(1) : upload_events[i].status = "ERROR"
    /\ \E i \in EventsOf(2) : upload_events[i].status = "SUCCESS"
    /\ unfinished_tasks = 1

\* the search ids _getSearchFunction has a search function for
KnownSearchIds == {"address", "wikipedia", "local"}

\* a step of Search.search that starts no job or ends a call that started none
NoJobStep ==
    \/ ui_pc = "idle" /\ ui_pc' \in {"offline", "no_function"}
    \/ ui_pc \in {"offline", "no_function"} /\ ui_pc' = "idle"

\* every key of the map is a thread a search function started, recorded
\* with the search id of a search function
KeysAreStarted(map, state) ==
    \A t \in DOMAIN map : state[t] # "unstarted" /\ map[t] \in KnownSearchIds

\* C38: a call of Search.search that starts no job (no online services, or
\* no search function for the search id) leaves _threadsInProgress as it is
\* and has no thread id to return; a call without online services or with
\* an unknown search id never starts a job; so every key of
\* _threadsInProgress is the id of a thread a search function started
C38_NoJobNoRecord ==
    [][/\ NoJobStep => UNCHANGED threadsInProgress /\ ui_thread' = NoThread
       /\ \A searchId \in SearchIds :
            SearchStart(searchId) /\ (~online \/ searchId \notin KnownSearchIds)
              => UNCHANGED <<threadsInProgress, th_state>> /\ ui_pc' # "record"
       /\ KeysAreStarted(threadsInProgress', th_state')]_vars

\* a search with an unknown search id is ending without a job while the
\* thread of an earlier search is tracked
C38_Witness ==
    /\ ui_pc = "no_function"
    /\ threadsInProgress # <<>>
    /\ KeysAreStarted(threadsInProgress, th_state)

====
